---- MODULE Spec2Model ----
(***************************************************************************)
(* A model of git-gr's stacked-change machinery:                           *)
(*   - DependencyGraph (src/src/dependency_graph.rs): insert, depends_on,  *)
(*     needed_by, depends_on_roots, dependency_root;                       *)
(*   - the restack plan (src/src/restack.rs: create_todo) and the          *)
(*     resumable restack state machine (restack, restack_abort);           *)
(*   - the push state machine (src/src/restack_push.rs: restack_push).     *)
(*                                                                         *)
(* Option<T> is modelled as a set with at most one element: None is {}     *)
(* and Some(x) is {x}.  A BTreeMap is a function whose DOMAIN is the set   *)
(* of keys; a BTreeSet is a set, iterated in ascending order.              *)
(***************************************************************************)
EXTENDS Integers, Sequences, FiniteSets, TLC

(* ------------------------------ bounds --------------------------------- *)

\* Number of change numbers the remote knows.
NumChanges == 3

\* Largest number of edges the remote reports for one restack plan.
MaxEdges == 2

Changes == 10 .. (9 + NumChanges)

Min(S) == CHOOSE x \in S : \A y \in S : x <= y

\* Ascending iteration order of a BTreeSet.
RECURSIVE SortedSeq(_)
SortedSeq(S) == IF S = {} THEN << >>
                ELSE << Min(S) >> \o SortedSeq(S \ {Min(S)})

SeqToSet(s) == { s[i] : i \in 1 .. Len(s) }

(* -------------------------- DependencyGraph ---------------------------- *)

\* DependencyGraph::new
NewGraph(root) ==
    [ root |-> root,
      dependencies |-> << >>,
      reverse_dependencies |-> << >> ]

\* The reverse-edge set of a change, {} when the map has no such key.
ReverseSet(g, c) ==
    IF c \in DOMAIN g.reverse_dependencies THEN g.reverse_dependencies[c] ELSE {}

\* A plausible slip: a conflicting insert overwrites the recorded parent.
InsertOverwriting(g, change, parent) ==
    [ ok |-> TRUE,
      graph |-> [ g EXCEPT
          !.dependencies = (change :> parent) @@ g.dependencies,
          !.reverse_dependencies =
              (parent :> (ReverseSet(g, parent) \cup {change})) @@ g.reverse_dependencies ] ]

\* A plausible slip: the reverse edge is recorded before the conflict check.
InsertReverseFirst(g, change, parent) ==
    LET withReverse == [ g EXCEPT !.reverse_dependencies =
            (parent :> (ReverseSet(g, parent) \cup {change})) @@ g.reverse_dependencies ]
    IN  IF change \in DOMAIN g.dependencies /\ g.dependencies[change] # parent
        THEN [ ok |-> FALSE, graph |-> withReverse ]
        ELSE [ ok |-> TRUE,
               graph |-> [ withReverse EXCEPT
                   !.dependencies = (change :> parent) @@ g.dependencies ] ]

\* DependencyGraph::insert: [ok, graph]; ok = FALSE is the Err return.
Insert(g, change, parent) ==
    IF change \in DOMAIN g.dependencies /\ g.dependencies[change] # parent
    THEN [ ok |-> FALSE, graph |-> g ]
    ELSE [ ok |-> TRUE,
           graph |-> [ g EXCEPT
               !.dependencies = (change :> parent) @@ g.dependencies,
               !.reverse_dependencies =
                   (parent :> (ReverseSet(g, parent) \cup {change}))
                       @@ g.reverse_dependencies ] ]

\* DependencyGraph::depends_on: Option<ChangeNumber>.
DependsOn(g, change) ==
    IF change \in DOMAIN g.dependencies THEN { g.dependencies[change] } ELSE {}

\* DependencyGraph::needed_by: the set returned and the graph with the
\* lazily created entry.
NeededBy(g, change) ==
    [ set |-> ReverseSet(g, change),
      graph |-> [ g EXCEPT !.reverse_dependencies =
                      (change :> ReverseSet(g, change)) @@ g.reverse_dependencies ] ]

\* The while loop of depends_on_roots: queue.pop_back / push_front is FIFO.
RECURSIVE RootsLoop(_, _, _, _)
RootsLoop(g, queue, seen, roots) ==
    IF queue = << >> THEN roots
    ELSE LET change == Head(queue)
             parent == DependsOn(g, change)
         IN  IF parent = {}
             THEN RootsLoop(g, Tail(queue), seen, roots \cup {change})
             ELSE LET p == CHOOSE x \in parent : TRUE
                  IN  IF p \in seen
                      THEN RootsLoop(g, Tail(queue), seen, roots)
                      ELSE RootsLoop(g, Append(Tail(queue), p), seen \cup {p}, roots)

\* A plausible slip: every change of the graph without a parent is a root,
\* whether or not the walk from the root reaches it.
DependsOnRootsAll(g) ==
    { c \in {g.root} \cup DOMAIN g.dependencies
               \cup { g.dependencies[x] : x \in DOMAIN g.dependencies } :
          DependsOn(g, c) = {} }

\* DependencyGraph::depends_on_roots
DependsOnRoots(g) == RootsLoop(g, << g.root >>, { g.root }, {})

\* A plausible slip: without a single root the walk falls back to the change
\* the graph was built from.
DependencyRootOrGraphRoot(g) ==
    IF Cardinality(DependsOnRoots(g)) = 1 THEN DependsOnRoots(g) ELSE { g.root }

\* DependencyGraph::dependency_root: Some(root) or None for the Err return.
DependencyRoot(g) ==
    IF Cardinality(DependsOnRoots(g)) = 1 THEN DependsOnRoots(g) ELSE {}

(* ------------------------------ the remote ----------------------------- *)

\* Change.status as the remote reports it (src/src/change_status.rs).
ChangeStatus == { "New", "Merged", "Abandoned" }

\* Change.branch: the target branch of a change, remote data.
TargetBranch(c) == IF c % 2 = 0 THEN "main" ELSE "release"

\* GerritGitRemote.remote
Remote == "origin"

(* ----------------------------- create_todo ----------------------------- *)

\* A plausible slip: every root is put on the same branch.
BranchStepMain(c) ==
    [ change |-> c,
      onto |-> [ kind |-> "Branch", remote |-> Remote, branch |-> "main" ] ]

\* Step { change, onto: RestackOnto::Branch { remote, branch } }
BranchStep(c) ==
    [ change |-> c,
      onto |-> [ kind |-> "Branch", remote |-> Remote, branch |-> TargetBranch(c) ] ]

\* Step { change, onto: RestackOnto::Change(parent) }
ChangeStep(c, parent) ==
    [ change |-> c, onto |-> [ kind |-> "Change", parent |-> parent ] ]

\* A plausible slip: the step is put at the front of the queue.
EnqueueStepFront(steps, step) == << step >> \o steps

\* todo.steps.push_back(step)
EnqueueStep(steps, step) == Append(steps, step)

\* The for loop over needed_by(change): unseen children join the queue in
\* ascending order.  st is [queue, seen].
RECURSIVE EnqueueUnseen(_, _)
EnqueueUnseen(st, children) ==
    IF children = << >> THEN st
    ELSE LET c == Head(children)
         IN  IF c \in st.seen
             THEN EnqueueUnseen(st, Tail(children))
             ELSE EnqueueUnseen([ queue |-> Append(st.queue, c),
                                  seen |-> st.seen \cup {c} ],
                                Tail(children))

\* A plausible slip: merged and abandoned changes are planned like open ones.
RECURSIVE TodoLoopKeepsMerged(_, _, _, _, _)
TodoLoopKeepsMerged(acc, roots, status, queue, seen) ==
    IF queue = << >> \/ ~acc.ok THEN acc
    ELSE LET change == Head(queue)
         IN  IF FALSE
             THEN TodoLoopKeepsMerged(acc, roots, status, Tail(queue), seen)
             ELSE LET parent == DependsOn(acc.graph, change)
                      nb == NeededBy(acc.graph, change)
                      next == EnqueueUnseen([ queue |-> Tail(queue), seen |-> seen ],
                                            SortedSeq(nb.set))
                  IN  IF change \in roots
                      THEN TodoLoopKeepsMerged([ ok |-> TRUE,
                                      steps |-> EnqueueStep(acc.steps, BranchStep(change)),
                                      graph |-> nb.graph ],
                                    roots, status, next.queue, next.seen)
                      ELSE IF parent = {}
                      THEN [ acc EXCEPT !.ok = FALSE ]
                      ELSE TodoLoopKeepsMerged([ ok |-> TRUE,
                                      steps |-> EnqueueStep(acc.steps,
                                          ChangeStep(change, CHOOSE p \in parent : TRUE)),
                                      graph |-> nb.graph ],
                                    roots, status, next.queue, next.seen)

\* The while loop of create_todo for one root.  acc is [ok, steps, graph].
RECURSIVE TodoLoop(_, _, _, _, _)
TodoLoop(acc, roots, status, queue, seen) ==
    IF queue = << >> \/ ~acc.ok THEN acc
    ELSE LET change == Head(queue)
         IN  IF status[change] # "New"
             THEN TodoLoop(acc, roots, status, Tail(queue), seen)
             ELSE LET parent == DependsOn(acc.graph, change)
                      nb == NeededBy(acc.graph, change)
                      next == EnqueueUnseen([ queue |-> Tail(queue), seen |-> seen ],
                                            SortedSeq(nb.set))
                  IN  IF change \in roots
                      THEN TodoLoop([ ok |-> TRUE,
                                      steps |-> EnqueueStep(acc.steps, BranchStep(change)),
                                      graph |-> nb.graph ],
                                    roots, status, next.queue, next.seen)
                      ELSE IF parent = {}
                      THEN [ acc EXCEPT !.ok = FALSE ]
                      ELSE TodoLoop([ ok |-> TRUE,
                                      steps |-> EnqueueStep(acc.steps,
                                          ChangeStep(change, CHOOSE p \in parent : TRUE)),
                                      graph |-> nb.graph ],
                                    roots, status, next.queue, next.seen)

\* The for loop over the roots, in ascending order.
RECURSIVE TodoRoots(_, _, _, _)
TodoRoots(acc, roots, status, rest) ==
    IF rest = << >> \/ ~acc.ok THEN acc
    ELSE TodoRoots(TodoLoop(acc, roots, status, << Head(rest) >>, { Head(rest) }),
                   roots, status, Tail(rest))

\* Lines 422-477 of create_todo: the step queue planned for a graph, given
\* the status the remote reports for each change.  [ok, steps, graph].
PlanSteps(g, status) ==
    TodoRoots([ ok |-> TRUE, steps |-> << >>, graph |-> g ],
              DependsOnRoots(g), status, SortedSeq(DependsOnRoots(g)))

\* DependencyGraphBuilder::traverse inserts the edges the remote reports,
\* in the order it meets them, and gives up at the first failing insert.
RECURSIVE BuildGraph(_, _)
BuildGraph(acc, edges) ==
    IF edges = << >> \/ ~acc.ok THEN acc
    ELSE BuildGraph(Insert(acc.graph, Head(edges)[1], Head(edges)[2]), Tail(edges))

\* The edge lists the remote may report.
EdgeSeqs == UNION { [ 1 .. n -> Changes \X Changes ] : n \in 0 .. MaxEdges }

\* The changes joined to the changes of S by edges, in either direction:
\* traverse only meets changes it reaches from the root.
RECURSIVE Reached(_, _)
Reached(g, S) ==
    LET T == S \cup { g.dependencies[c] : c \in S \cap DOMAIN g.dependencies }
               \cup { c \in DOMAIN g.dependencies : g.dependencies[c] \in S }
    IN  IF T = S THEN S ELSE Reached(g, T)

\* The graphs traverse can return: every one is built through insert, and
\* every edge is joined to the root.
GraphInputs ==
    { g \in { BuildGraph([ ok |-> TRUE, graph |-> NewGraph(root) ], edges).graph :
                root \in Changes,
                edges \in { es \in EdgeSeqs :
                    BuildGraph([ ok |-> TRUE, graph |-> NewGraph(Min(Changes)) ], es).ok } } :
        DOMAIN g.dependencies \subseteq Reached(g, { g.root }) }

\* Gerrit::dependency_graph(change.number): the remote's edges, traversed
\* from the given change.
DependencyGraphOf(g, root) == [ g EXCEPT !.root = root ]

(* ------------------------------- commits ------------------------------- *)

\* A commit: the change its Change-Id names (0 when it names none that the
\* remote knows) and a version that tells the rewrites of a change apart.
Commit(chg, ver) == [ chg |-> chg, ver |-> ver ]

\* A commit of the target branch: it carries no tracked Change-Id.
BranchCommit == Commit(0, 0)

\* The user's local, unpublished commit of a change.
LocalCommit(c) == Commit(c, 0)

\* The patchset of a change that the remote holds at the start.
FirstPatchset(c) == Commit(c, 1)

\* The commit a rewrite makes out of a picked commit.
Rewritten(commit) == Commit(commit.chg, commit.ver + 1)

\* Git::change_id followed by Gerrit::get_change: the change a commit
\* belongs to, None when its message has no Change-Id.
ChangeOfCommit(commit) == IF commit.chg \in Changes THEN { commit.chg } ELSE {}

(* ------------------------------ RestackTodo ---------------------------- *)

\* RefUpdate { old, new }
RefUpdate(old, new) == [ old |-> old, new |-> new ]

\* RefUpdate::has_change
HasChange(update) == update.old # update.new

\* InProgress { inner, old_head }
InProgress(step, old_head) == [ inner |-> step, old_head |-> old_head ]

\* A file that does not exist.
Absent == [ state |-> "absent" ]

\* A file whose content does not deserialize.
Corrupt == [ state |-> "corrupt" ]

\* RestackTodo::write / PushTodo::write: the file now holds the todo.
Written(todo) == [ state |-> "valid", todo |-> todo ]

\* BTreeMap::insert on refs.
RefsInsert(refs, change, update) == (change :> update) @@ refs

\* A plausible slip: every entry of refs is carried over.
PushTodoFromAll(todo) == [ graph |-> todo.graph, refs |-> todo.refs ]

\* A plausible slip: the push todo keeps only the edges of the changes it
\* publishes.
PushTodoFromPruned(todo) ==
    LET changed == { x \in DOMAIN todo.refs : HasChange(todo.refs[x]) }
    IN  [ graph |-> [ todo.graph EXCEPT
                        !.dependencies =
                            [ c \in DOMAIN todo.graph.dependencies \cap changed |->
                                todo.graph.dependencies[c] ] ],
          refs |-> [ c \in changed |-> todo.refs[c] ] ]

\* PushTodo::from(RestackTodo): the entries of refs that changed.
PushTodoFrom(todo) ==
    [ graph |-> todo.graph,
      refs |-> [ c \in { x \in DOMAIN todo.refs : HasChange(todo.refs[x]) } |-> todo.refs[c] ] ]

\* A plausible slip: the push todo is never taken to be empty.
IsEmptyNever(push) == FALSE

\* PushTodo::is_empty
IsEmpty(push) == DOMAIN push.refs = {}

\* A plausible slip: the parent is always fetched from the remote.
ParentRefFetched(todo, parent, ps) == ps[parent]

\* perform_step, lines 85-95: the ref a non-root step is rewritten onto.
ParentRef(todo, parent, ps) ==
    IF parent \in DOMAIN todo.refs THEN todo.refs[parent].new ELSE ps[parent]

\* perform_step: what the step is rewritten onto, a remote branch for a
\* root and a commit otherwise.
StepOnto(todo, step, ps) ==
    IF step.onto.kind = "Branch"
    THEN [ kind |-> "ref", remote |-> step.onto.remote, branch |-> step.onto.branch ]
    ELSE [ kind |-> "commit", commit |-> ParentRef(todo, step.onto.parent, ps) ]

\* The commit HEAD is at while a rewrite onto `onto` is stopped on a conflict.
OntoCommit(onto) == IF onto.kind = "ref" THEN BranchCommit ELSE onto.commit

\* format_git_rebase_todo: the sequence editor picks the change at the front
\* of the steps of the todo on disk; None when there is nothing to pick.
RebaseTodoPick(file) ==
    IF file.state = "valid" /\ file.todo.steps # << >>
    THEN { Head(file.todo.steps).change }
    ELSE {}

\* The while loop of format_tree: needed_by creates the reverse set of each
\* change it visits.
RECURSIVE FormatTreeLoop(_, _, _)
FormatTreeLoop(g, queue, seen) ==
    IF queue = << >> THEN g
    ELSE LET nb == NeededBy(g, Head(queue))
             next == EnqueueUnseen([ queue |-> Tail(queue), seen |-> seen ],
                                   SortedSeq(nb.set))
         IN  FormatTreeLoop(nb.graph, next.queue, next.seen)

\* DependencyGraph::format_tree: fails without a single root; [ok, graph].
FormatTree(g) ==
    IF DependencyRoot(g) = {}
    THEN [ ok |-> FALSE, graph |-> g ]
    ELSE LET root == CHOOSE r \in DependencyRoot(g) : TRUE
         IN  [ ok |-> TRUE, graph |-> FormatTreeLoop(g, << root >>, { root }) ]

(* ------------------------------- state --------------------------------- *)

VARIABLES
    graph,      \* the DependencyGraph being built / the graph traverse returns
    call,       \* the last call made on graph: its arguments and its result
    plan,       \* the step queue create_todo planned, as first planned
    todoFile,   \* .git/git-gr-restack-todo.json
    pushFile,   \* .git/git-gr-push-todo.json
    pc,         \* where the running invocation is; "idle" between invocations
    mem,        \* the todo the running invocation holds in memory
    git,        \* the working copy: HEAD and the native rebase state
    patchset,   \* the remote: the current patchset commit of each change
    published,  \* what the push todo held when written, and the publishes since
    result,     \* the command last invoked and how it ended
    exec,       \* the loop iteration, start or abort just performed, else NoExec
    done,       \* the completion just performed, NoDone after anything else
    plans,      \* number of restack todos planned so far
    remote,     \* what the remote reports, how often traverse has asked it, and
                \* what was last set under each cache key
    builder,    \* the DependencyGraphBuilder of a running traverse and its worklist
    cache       \* the GerritCache and the age of each of its entries

graphVars == << graph, call, plan >>

restackVars == << todoFile, pushFile, pc, mem, git, patchset, published,
                  result, exec, done, plans >>

gerritVars == << remote, builder, cache >>

vars == << graph, call, plan, todoFile, pushFile, pc, mem, git, patchset,
           published, result, exec, done, plans, remote, builder, cache >>

NoCall == [ op |-> "none" ]

NoPlan == [ made |-> FALSE ]

\* No invocation is running: nothing is held in memory.
NoMem == [ kind |-> "none" ]

NoResult == [ cmd |-> "none", status |-> "ok" ]

NoExec == [ kind |-> "none" ]

NoDone == [ completed |-> FALSE ]

\* Nothing is pending and nothing was published.
NoPublished == [ pending |-> << >>, log |-> << >> ]

\* A working copy with HEAD at `head` and no native rebase in progress.
GitAt(head) ==
    [ head |-> head, rebase_in_progress |-> FALSE, picking |-> {}, orig_head |-> {} ]

\* A working copy whose native rebase stopped on a conflict while picking
\* `picked` onto `head`; it started from `orig`.
GitConflict(head, picked, orig) ==
    [ head |-> head, rebase_in_progress |-> TRUE, picking |-> { picked },
      orig_head |-> { orig } ]

\* The restack machinery before anything was invoked.
RestackIdle(head) ==
    /\ todoFile = Absent
    /\ pushFile = Absent
    /\ pc = "idle"
    /\ mem = NoMem
    /\ git = GitAt(head)
    /\ patchset = [ c \in Changes |-> FirstPatchset(c) ]
    /\ published = NoPublished
    /\ result = NoResult
    /\ exec = NoExec
    /\ done = NoDone
    /\ plans = 0

\* No traverse is running and no cache is attached.
NoRemote == [ asked |-> FALSE ]

NoBuilder == [ state |-> "none" ]

NoCache == [ attached |-> FALSE ]

GerritIdle ==
    /\ remote = NoRemote
    /\ builder = NoBuilder
    /\ cache = NoCache

(* -------------------- building and planning a graph -------------------- *)

InitGraph ==
    /\ \E root \in Changes : graph = NewGraph(root)
    /\ call = NoCall
    /\ plan = NoPlan
    /\ RestackIdle(BranchCommit)
    /\ GerritIdle

\* graph.insert(DependsOnRelation { change, depends_on })
InsertCall ==
    /\ \E change \in Changes, parent \in Changes :
          /\ graph' = Insert(graph, change, parent).graph
          /\ call' = [ op |-> "insert", change |-> change, depends_on |-> parent,
                       ok |-> Insert(graph, change, parent).ok ]
    /\ UNCHANGED << plan, restackVars, gerritVars >>

\* graph.depends_on(change)
DependsOnCall ==
    /\ \E change \in Changes :
          call' = [ op |-> "depends_on", change |-> change,
                    result |-> DependsOn(graph, change) ]
    /\ UNCHANGED << graph, plan, restackVars, gerritVars >>

\* graph.needed_by(change)
NeededByCall ==
    /\ \E change \in Changes :
          /\ graph' = NeededBy(graph, change).graph
          /\ call' = [ op |-> "needed_by", change |-> change,
                       result |-> NeededBy(graph, change).set ]
    /\ UNCHANGED << plan, restackVars, gerritVars >>

\* graph.depends_on_roots()
DependsOnRootsCall ==
    /\ call' = [ op |-> "depends_on_roots", result |-> DependsOnRoots(graph) ]
    /\ UNCHANGED << graph, plan, restackVars, gerritVars >>

\* graph.dependency_root(): the root, or the error and the roots it lists.
DependencyRootCall ==
    /\ call' = [ op |-> "dependency_root",
                 ok |-> DependencyRoot(graph) # {},
                 root |-> DependencyRoot(graph),
                 candidates |-> IF DependencyRoot(graph) # {} THEN {}
                                ELSE DependsOnRoots(graph) ]
    /\ UNCHANGED << graph, plan, restackVars, gerritVars >>

\* graph.format_tree(..): rendered only when dependency_root succeeds.
FormatTreeCall ==
    /\ graph' = FormatTree(graph).graph
    /\ call' = [ op |-> "format_tree", ok |-> FormatTree(graph).ok ]
    /\ UNCHANGED << plan, restackVars, gerritVars >>

\* restack_push on a push todo holding this graph, up to its loop: the walk
\* queue holds the root, or the command has failed with nothing published.
RestackPushCall ==
    /\ call' = [ op |-> "restack_push",
                 ok |-> DependencyRoot(graph) # {} /\ FormatTree(graph).ok,
                 queue |-> IF DependencyRoot(graph) # {} /\ FormatTree(graph).ok
                           THEN SortedSeq(DependencyRoot(graph)) ELSE << >> ]
    /\ UNCHANGED << graph, plan, restackVars, gerritVars >>

NextGraph ==
    \/ InsertCall
    \/ DependsOnCall
    \/ NeededByCall
    \/ DependsOnRootsCall
    \/ DependencyRootCall
    \/ FormatTreeCall
    \/ RestackPushCall

SpecGraph == InitGraph /\ [][NextGraph]_vars

(* ---------------------- the order of insertion ------------------------- *)

\* The orders in which n edges can be inserted.
Perms(n) == { p \in [ 1 .. n -> 1 .. n ] : \A i, j \in 1 .. n : p[i] = p[j] => i = j }

Reordered(edges, p) == [ i \in 1 .. Len(edges) |-> edges[p[i]] ]

\* DependencyGraph::new(root) followed by one insert per edge, given up at
\* the first insert that fails.
InsertAll(root, edges) == BuildGraph([ ok |-> TRUE, graph |-> NewGraph(root) ], edges)

\* The same edges inserted into a new graph in two orders.
InsertAllCall ==
    /\ \E edges \in EdgeSeqs : \E p \in Perms(Len(edges)) :
          call' = [ op |-> "insert_all", edges |-> edges, order |-> p,
                    first |-> InsertAll(graph.root, edges),
                    second |-> InsertAll(graph.root, Reordered(edges, p)) ]
    /\ UNCHANGED << graph, plan, restackVars, gerritVars >>

NextOrder == InsertAllCall

SpecOrder == InitGraph /\ [][NextOrder]_vars

(* ------------------------- planning the restack ------------------------ *)

\* The statuses the remote may report: merged and abandoned changes are
\* handled by the same match arm of create_todo.
StatusInputs ==
    [ Changes -> { "New", "Merged" } ] \cup [ Changes -> { "New", "Abandoned" } ]

\* DependencyGraphBuilder::traverse fills the graph through insert and
\* gives up at the first insert that fails.
TraverseInsert ==
    /\ ~plan.made
    /\ \E change \in Changes, parent \in Changes :
          /\ Insert(graph, change, parent).ok
          /\ graph' = Insert(graph, change, parent).graph
    /\ UNCHANGED << call, plan, restackVars, gerritVars >>

\* create_todo's planning (lines 422-477) on the graph built so far.
PlanCall ==
    /\ ~plan.made
    /\ \E status \in StatusInputs :
          LET planned == PlanSteps(graph, status)
          IN  /\ plan' = [ made |-> TRUE, status |-> status,
                           ok |-> planned.ok, steps |-> planned.steps ]
              /\ graph' = planned.graph
    /\ UNCHANGED << call, restackVars, gerritVars >>

NextPlan == TraverseInsert \/ PlanCall

SpecPlan == InitGraph /\ [][NextPlan]_vars

(* ------------------------------ traverse ------------------------------- *)

\* The statuses the remote reports during one traverse: at most one change
\* is merged or abandoned.
TraverseStatusInputs ==
    { st \in StatusInputs : Cardinality({ c \in Changes : st[c] # "New" }) <= 1 }

\* What `query --dependencies` may report for a change: the other changes
\* its dependsOn and neededBy lists name. The lists of two changes need not
\* agree, and dependsOn may name several changes.
DependencyAnswers(change) ==
    [ depends_on : SUBSET (Changes \ {change}), needed_by : SUBSET (Changes \ {change}) ]

\* What the related-changes endpoint may report for a change: the change
\* itself and other changes of its relation chain.
RelatedAnswers(change) == { {change} \cup S : S \in SUBSET (Changes \ {change}) }

\* One answer of `query --dependencies` for each change of need.
RECURSIVE AnswersFor(_)
AnswersFor(need) ==
    IF need = {} THEN { << >> }
    ELSE LET c == Min(need)
         IN  { (c :> a) @@ f : a \in DependencyAnswers(c), f \in AnswersFor(need \ {c}) }

\* A plausible slip: the lists are kept as the remote reports them.
FilterNothing(status, deps) == deps

\* ChangeDependencies::filter_unmerged: the entries of both lists whose
\* change has status new.
FilterUnmerged(status, deps) ==
    [ depends_on |-> { d \in deps.depends_on : status[d] = "New" },
      needed_by |-> { d \in deps.needed_by : status[d] = "New" } ]

\* A plausible slip: the remote is asked again for a change already known.
VacantAlways(memo, change) == TRUE

\* Entry::Vacant of builder.dependencies and builder.related.
Vacant(memo, change) == change \notin DOMAIN memo

\* DependencyGraphBuilder::dependencies, called for each change of changes
\* in turn: the remote is asked for a change the map does not hold, and the
\* filtered answer is kept. st is [memo, asked].
RECURSIVE AskDependencies(_, _, _, _)
AskDependencies(st, changes, answers, status) ==
    IF changes = << >> THEN st
    ELSE LET c == Head(changes)
         IN  IF Vacant(st.memo, c)
             THEN AskDependencies(
                      [ memo |-> (c :> FilterUnmerged(status, answers[c])) @@ st.memo,
                        asked |-> [ st.asked EXCEPT ![c] = @ + 1 ] ],
                      Tail(changes), answers, status)
             ELSE AskDependencies(st, Tail(changes), answers, status)

\* A plausible slip: every related change counts as a child.
IndirectAllRelated(memo, change, related) == related \ {change}

\* DependencyGraphBuilder::indirect_reverse_dependencies, given the related
\* changes of change and the dependencies of each of them.
IndirectReverseDependencies(memo, change, related) ==
    { r \in related : change \in memo[r].depends_on }

\* Number of times c is in the queue.
Count(queue, c) == Cardinality({ i \in 1 .. Len(queue) : queue[i] = c })

\* DependencyGraphBuilder::new and the first lines of traverse.
NewBuilder(root) ==
    [ state |-> "traversing", error |-> "none",
      queue |-> << root >>, seen |-> { root },
      dependencies |-> << >>, related |-> << >>,
      enqueued |-> [ c \in Changes |-> IF c = root THEN 1 ELSE 0 ],
      dequeued |-> [ c \in Changes |-> 0 ] ]

\* traverse returns an error while change is being handled: the builder
\* and the graph built so far are dropped.
Dropped(b, change, error) ==
    [ b EXCEPT !.state = "failed", !.error = error,
               !.queue = << >>, !.seen = {},
               !.dependencies = << >>, !.related = << >>,
               !.dequeued[change] = @ + 1 ]

InitTraverse ==
    /\ \E root \in Changes :
          /\ graph = NewGraph(root)
          /\ builder = NewBuilder(root)
    /\ \E status \in TraverseStatusInputs :
          remote = [ status |-> status,
                     dependencies |-> [ c \in Changes |-> 0 ],
                     related |-> [ c \in Changes |-> 0 ] ]
    /\ cache = NoCache
    /\ call = NoCall
    /\ plan = NoPlan
    /\ RestackIdle(BranchCommit)

\* One iteration of the while loop of traverse in which a query fails: the
\* error is returned and the builder is dropped.
TraverseQueryFails ==
    /\ builder.state = "traversing"
    /\ builder.queue # << >>
    /\ builder' = Dropped(builder, Head(builder.queue), "remote")
    /\ call' = [ op |-> "traverse", change |-> Head(builder.queue), ok |-> FALSE ]
    /\ UNCHANGED << graph, remote, cache, plan, restackVars >>

\* The inserts and the worklist updates of one iteration of traverse for
\* change, given the related changes rel of change and the state asked of
\* builder.dependencies after its reads: what the iteration leaves.
Iteration(g, b, change, rel, asked) ==
    LET indirect == IndirectReverseDependencies(asked.memo, change, rel)
        parents == SortedSeq(asked.memo[change].depends_on)
        children == SortedSeq(asked.memo[change].needed_by \cup indirect)
        edges == [ i \in 1 .. Len(parents) |-> << change, parents[i] >> ]
                     \o [ i \in 1 .. Len(children) |-> << children[i], change >> ]
        built == BuildGraph([ ok |-> TRUE, graph |-> g ], edges)
        next == EnqueueUnseen([ queue |-> Tail(b.queue), seen |-> b.seen ],
                              parents \o children)
    IN  IF built.ok
        THEN [ graph |-> built.graph,
               asked |-> asked.asked,
               builder |-> [ b EXCEPT
                   !.queue = next.queue,
                   !.seen = next.seen,
                   !.dependencies = asked.memo,
                   !.related = (change :> rel) @@ @,
                   !.enqueued = [ c \in Changes |->
                       @[c] + Count(next.queue, c) - Count(Tail(b.queue), c) ],
                   !.dequeued[change] = @ + 1 ],
               call |-> [ op |-> "traverse", change |-> change, ok |-> TRUE,
                          related |-> rel, indirect |-> indirect,
                          inserted |-> SeqToSet(edges),
                          enqueued |-> SeqToSet(next.queue) \ SeqToSet(Tail(b.queue)) ] ]
        ELSE [ graph |-> g,
               asked |-> asked.asked,
               builder |-> Dropped(b, change, "conflict"),
               call |-> [ op |-> "traverse", change |-> change, ok |-> FALSE,
                          related |-> rel, indirect |-> indirect,
                          inserted |-> {}, enqueued |-> {} ] ]

\* One iteration of the while loop of traverse: the change is dequeued, its
\* related changes and their dependencies are read, its own dependencies are
\* read, and an edge is inserted for each parent and each child; the first
\* insert that fails ends the traverse.
TraverseStep ==
    /\ builder.state = "traversing"
    /\ builder.queue # << >>
    /\ LET change == Head(builder.queue)
           outcomes ==
               { Iteration(graph, builder, change, rel,
                     AskDependencies([ memo |-> builder.dependencies,
                                       asked |-> remote.dependencies ],
                                     SortedSeq(rel) \o << change >>,
                                     answers, remote.status)) :
                   << rel, answers >> \in
                       UNION { { << r, a >> :
                                 a \in AnswersFor({ c \in r \cup {change} :
                                           Vacant(builder.dependencies, c) }) } :
                               r \in ( IF Vacant(builder.related, change)
                                       THEN RelatedAnswers(change)
                                       ELSE { builder.related[change] } ) } }
       IN  \E out \in outcomes :
             /\ graph' = out.graph
             /\ builder' = out.builder
             /\ call' = out.call
             /\ remote' = [ remote EXCEPT
                    !.dependencies = out.asked,
                    !.related[change] =
                        IF Vacant(builder.related, change) THEN @ + 1 ELSE @ ]
    /\ UNCHANGED << cache, plan, restackVars >>

\* The worklist is empty: traverse returns the builder, build() its graph.
TraverseBuild ==
    /\ builder.state = "traversing"
    /\ builder.queue = << >>
    /\ builder' = [ builder EXCEPT !.state = "built" ]
    /\ call' = [ op |-> "build" ]
    /\ UNCHANGED << graph, remote, cache, plan, restackVars >>

NextTraverse == TraverseQueryFails \/ TraverseStep \/ TraverseBuild

SpecTraverse == InitTraverse /\ [][NextTraverse]_vars

(* ------------------------------- cache --------------------------------- *)

\* CACHE_LIFESPAN in seconds: 10 * SECONDS_PER_MINUTE.
CACHE_LIFESPAN == 600

\* A lifespan of secs seconds.
Lifespan(secs) == [ unbounded |-> FALSE, secs |-> secs ]

\* The lifespan u64::MAX, longer than any age an entry reaches.
LifespanMax == [ unbounded |-> TRUE, secs |-> 0 ]

\* CacheKey, one key of each kind: change 10, its change id, the query
\* get_change runs for it, the fetch of its patchset, and an API endpoint.
CacheKeys == { "Change", "ChangeId", "Query", "Fetch", "Api" }

\* CacheValue: what the remote reports, in its first or its second version.
CacheValues == { 1, 2 }

\* The ages of an entry that matter: new, half of the lifespan, the lifespan.
Ages == { 0, CACHE_LIFESPAN \div 2, CACHE_LIFESPAN }

\* GerritCache::new: a DiskCache over the entries on disk.
DiskCacheOver(entries) ==
    [ attached |-> TRUE, lifespan |-> Lifespan(CACHE_LIFESPAN), entries |-> entries ]

\* An entry of the DiskCache has outlived the lifespan.
Expired(lifespan, entry) == ~lifespan.unbounded /\ entry.age >= lifespan.secs

\* IOCached::cache_get of GerritCache: Option<CacheValue>.
CacheGet(c, k) ==
    IF c.attached /\ k \in DOMAIN c.entries /\ ~Expired(c.lifespan, c.entries[k])
    THEN { c.entries[k].value }
    ELSE {}

\* IOCached::cache_set of GerritCache.
CacheSet(c, k, v) ==
    IF c.attached
    THEN [ c EXCEPT !.entries = (k :> [ value |-> v, age |-> 0 ]) @@ @ ]
    ELSE c

\* IOCached::cache_remove of GerritCache.
CacheRemove(c, k) ==
    IF c.attached
    THEN [ c EXCEPT !.entries = [ x \in DOMAIN @ \ {k} |-> @[x] ] ]
    ELSE c

\* What the name says: the expired entries are removed.
RemoveOnlyExpired(c) ==
    [ c EXCEPT !.entries =
        [ k \in { x \in DOMAIN @ : ~Expired(c.lifespan, @[x]) } |-> @[k] ] ]

\* DiskCache::remove_expired_entries as clear_cache describes it: it removes
\* the entries that have not expired.
RemoveExpiredEntries(c) ==
    [ c EXCEPT !.entries =
        [ k \in { x \in DOMAIN @ : Expired(c.lifespan, @[x]) } |-> @[k] ] ]

\* GerritCache::clear_cache on a disk cache: the lifespan is set to
\* u64::MAX, the entries are removed, the lifespan is set back.
ClearCache(c) ==
    [ RemoveExpiredEntries([ c EXCEPT !.lifespan = LifespanMax ])
        EXCEPT !.lifespan = c.lifespan ]

\* A plausible slip: a read that fails counts as a miss.
CacheReadDegrading(c, k, fails) ==
    [ ok |-> TRUE, value |-> IF fails THEN {} ELSE CacheGet(c, k) ]

\* self.cache.cache_get(&key).into_diagnostic()?: the value if any, or the
\* error of a read that fails.
CacheRead(c, k, fails) ==
    IF fails THEN [ ok |-> FALSE, value |-> {} ]
    ELSE [ ok |-> TRUE, value |-> CacheGet(c, k) ]

\* The result of a Gerrit call: Ok(value) or Err(error), the cache it
\* leaves, and whether the remote was asked.
GerritOk(c, value, asked) ==
    [ ok |-> TRUE, value |-> { value }, error |-> "none", cache |-> c, asked |-> asked ]

GerritErr(c, error, asked) ==
    [ ok |-> FALSE, value |-> {}, error |-> error, cache |-> c, asked |-> asked ]

\* Gerrit::query and Gerrit::http_request: the cached value, else the answer
\* of the remote, which is cached.
CachedRequest(c, key, fails, remoteOk, version) ==
    LET read == CacheRead(c, key, fails)
    IN  IF ~read.ok THEN GerritErr(c, "cache read", FALSE)
        ELSE IF read.value # {}
        THEN GerritOk(c, CHOOSE v \in read.value : TRUE, FALSE)
        ELSE IF ~remoteOk THEN GerritErr(c, "remote", TRUE)
        ELSE GerritOk(CacheSet(c, key, version), version, TRUE)

\* Gerrit::get_change: the cached change, else the change found by query,
\* which is cached under its number and under its change id.
GetChange(c, fails, queryFails, remoteOk, version) ==
    LET read == CacheRead(c, "Change", fails)
    IN  IF ~read.ok THEN GerritErr(c, "cache read", FALSE)
        ELSE IF read.value # {}
        THEN GerritOk(c, CHOOSE v \in read.value : TRUE, FALSE)
        ELSE LET found == CachedRequest(c, "Query", queryFails, remoteOk, version)
             IN  IF ~found.ok THEN found
                 ELSE LET v == CHOOSE x \in found.value : TRUE
                      IN  GerritOk(CacheSet(CacheSet(found.cache, "Change", v),
                                            "ChangeId", v),
                                   v, found.asked)

\* Gerrit::fetch_cl: the cached commit, else the commit fetched from the
\* remote; nothing is cached.
FetchCl(c, fails, remoteOk, version) ==
    LET read == CacheRead(c, "Fetch", fails)
    IN  IF ~read.ok THEN GerritErr(c, "cache read", FALSE)
        ELSE IF read.value # {}
        THEN GerritOk(c, CHOOSE v \in read.value : TRUE, FALSE)
        ELSE IF ~remoteOk THEN GerritErr(c, "remote", TRUE)
        ELSE GerritOk(c, version, TRUE)

\* The calls of Gerrit that read the cache.
GerritOps == { "get_change", "query", "fetch_cl", "http_request" }

\* The key a call reads first.
KeyOf(op) ==
    CASE op = "get_change" -> "Change"
      [] op = "query" -> "Query"
      [] op = "fetch_cl" -> "Fetch"
      [] op = "http_request" -> "Api"

\* What is known of the last cache_set of each key: its value and the time
\* since, unless the key was never set, or was removed or the cache cleared
\* since.
NeverSet == [ set |-> FALSE, value |-> 0, elapsed |-> 0, removed |-> FALSE ]

Removed == [ set |-> TRUE, value |-> 0, elapsed |-> 0, removed |-> TRUE ]

JustSet(v) == [ set |-> TRUE, value |-> v, elapsed |-> 0, removed |-> FALSE ]

InitCache ==
    /\ cache = DiskCacheOver(<< >>)
    /\ remote = [ version |-> 1, written |-> [ k \in CacheKeys |-> NeverSet ] ]
    /\ builder = NoBuilder
    /\ graph = NewGraph(Min(Changes))
    /\ call = NoCall
    /\ plan = NoPlan
    /\ RestackIdle(BranchCommit)

\* cache.cache_get(k)
CacheGetCall ==
    /\ \E k \in CacheKeys :
          call' = [ op |-> "cache_get", key |-> k, result |-> CacheGet(cache, k) ]
    /\ UNCHANGED << graph, plan, remote, builder, cache, restackVars >>

\* The cache_remove calls after a push of the change: its entries under
\* its number and under its change id are removed.
CacheRemoveCall ==
    /\ cache' = CacheRemove(CacheRemove(cache, "Change"), "ChangeId")
    /\ remote' = IF cache.attached
                 THEN [ remote EXCEPT !.written["Change"] = Removed,
                                      !.written["ChangeId"] = Removed ]
                 ELSE remote
    /\ call' = [ op |-> "cache_remove" ]
    /\ UNCHANGED << graph, plan, builder, restackVars >>

\* `git-gr clear-cache`: clear_cache, which is not written for a detached
\* cache and panics on it.
ClearCacheCall ==
    /\ IF cache.attached
       THEN /\ cache' = ClearCache(cache)
            /\ remote' = [ remote EXCEPT !.written = [ k \in CacheKeys |-> Removed ] ]
            /\ call' = [ op |-> "clear_cache", panicked |-> FALSE ]
       ELSE /\ call' = [ op |-> "clear_cache", panicked |-> TRUE ]
            /\ UNCHANGED << cache, remote >>
    /\ UNCHANGED << graph, plan, builder, restackVars >>

\* Time passes: every entry ages by half of the lifespan.
Tick ==
    /\ \E k \in DOMAIN cache.entries : cache.entries[k].age < CACHE_LIFESPAN
    /\ cache' = [ cache EXCEPT !.entries =
                    [ k \in DOMAIN @ |->
                        [ @[k] EXCEPT !.age =
                            IF @ + CACHE_LIFESPAN \div 2 > CACHE_LIFESPAN
                            THEN CACHE_LIFESPAN
                            ELSE @ + CACHE_LIFESPAN \div 2 ] ] ]
    /\ remote' = [ remote EXCEPT !.written =
                     [ k \in CacheKeys |->
                         IF @[k].removed \/ ~@[k].set THEN @[k]
                         ELSE [ @[k] EXCEPT !.elapsed =
                                  IF @ + CACHE_LIFESPAN \div 2 > CACHE_LIFESPAN
                                  THEN CACHE_LIFESPAN
                                  ELSE @ + CACHE_LIFESPAN \div 2 ] ] ]
    /\ call' = [ op |-> "tick" ]
    /\ UNCHANGED << graph, plan, builder, restackVars >>

\* deattach_cache and attach_cache around an interactive rebase: the disk
\* cache is closed and a new one is opened over the same entries.
DetachCache ==
    /\ cache.attached
    /\ cache' = [ cache EXCEPT !.attached = FALSE ]
    /\ call' = [ op |-> "deattach_cache" ]
    /\ UNCHANGED << graph, plan, remote, builder, restackVars >>

AttachCache ==
    /\ ~cache.attached
    /\ cache' = DiskCacheOver(cache.entries)
    /\ call' = [ op |-> "attach_cache" ]
    /\ UNCHANGED << graph, plan, remote, builder, restackVars >>

\* The remote data changes.
RemoteChanges ==
    /\ remote.version = 1
    /\ remote' = [ remote EXCEPT !.version = 2 ]
    /\ call' = [ op |-> "remote" ]
    /\ UNCHANGED << graph, plan, builder, cache, restackVars >>

\* get_change, query, fetch_cl or http_request: a read of the cache on disk
\* may fail, and so may the remote.
GerritCall ==
    /\ \E op \in GerritOps, remoteOk \in BOOLEAN :
       \E fails \in { f \in BOOLEAN : f => cache.attached },
          queryFails \in { f \in BOOLEAN : f => (cache.attached /\ op = "get_change") } :
          LET out == CASE op = "get_change" ->
                          GetChange(cache, fails, queryFails, remoteOk, remote.version)
                       [] op = "fetch_cl" ->
                          FetchCl(cache, fails, remoteOk, remote.version)
                       [] OTHER ->
                          CachedRequest(cache, KeyOf(op), fails, remoteOk, remote.version)
              stored == { k \in DOMAIN out.cache.entries :
                            k \notin DOMAIN cache.entries
                                \/ out.cache.entries[k] # cache.entries[k] }
          IN  /\ cache' = out.cache
              /\ remote' = [ remote EXCEPT !.written =
                               [ k \in CacheKeys |->
                                   IF k \in stored
                                   THEN JustSet(out.cache.entries[k].value)
                                   ELSE @[k] ] ]
              /\ call' = [ op |-> op, key |-> KeyOf(op),
                           read_failed |-> fails,
                           query_read_failed |->
                               ~fails /\ queryFails /\ CacheGet(cache, KeyOf(op)) = {},
                           stored |-> stored,
                           found |-> CacheGet(cache, KeyOf(op)),
                           remote_ok |-> remoteOk,
                           version |-> remote.version,
                           ok |-> out.ok, value |-> out.value,
                           error |-> out.error, asked |-> out.asked ]
    /\ UNCHANGED << graph, plan, builder, restackVars >>

NextCache ==
    \/ CacheGetCall
    \/ CacheRemoveCall
    \/ ClearCacheCall
    \/ Tick
    \/ DetachCache
    \/ AttachCache
    \/ RemoteChanges
    \/ GerritCall

SpecCache == InitCache /\ [][NextCache]_vars

(* ------------------------------ restack -------------------------------- *)

\* Largest number of restack todos planned in one behaviour.
MaxPlans == 1

\* RestackContinue, and None for a plain `restack`.
NoOptions ==
    [ given |-> FALSE, restart_in_progress |-> FALSE, in_progress_commit |-> {} ]

\* The options a user may pass: the flags only matter with a step in progress,
\* and the commit the user names is the one HEAD is at, a commit of the
\* change in progress.
OptionInputs(file, head) ==
    IF file.state = "valid" /\ file.todo.in_progress # {}
    THEN { NoOptions } \cup
         [ given : { TRUE }, restart_in_progress : BOOLEAN,
           in_progress_commit :
               { {} } \cup { { head } : ip \in { x \in file.todo.in_progress :
                                 ChangeOfCommit(head) = { x.inner.change } } } ]
    ELSE { NoOptions, [ NoOptions EXCEPT !.given = TRUE ] }

AllNew == [ c \in Changes |-> "New" ]

\* The start of restack queries the remote when it plans a todo and when it
\* looks for the commit of the step in progress (lines 223-227).
NeedsRemote(file, g) ==
    \/ file = Absent
    \/ /\ file.state = "valid"
       /\ file.todo.in_progress # {}
       /\ ~g.rebase_in_progress

\* The statuses the remote reports when a restack is planned: at most one
\* change of the stack has been merged meanwhile (create_todo handles an
\* abandoned change in the same match arm).
RemoteStatuses ==
    { AllNew } \cup { [ AllNew EXCEPT ![c] = "Merged" ] : c \in Changes }

Failed(error) == [ ok |-> FALSE, error |-> error ]

\* create_todo, for the branch HEAD.  remoteOk: the remote answered every
\* query; headKnown: the lookup of HEAD's change succeeded.
CreateTodo(file, head, g, status, remoteOk, headKnown) ==
    IF file.state # "absent" THEN Failed("TodoAlreadyExists")
    ELSE IF ChangeOfCommit(head) = {} THEN Failed("NoChangeId")
    ELSE IF ~remoteOk THEN Failed("RemoteFailed")
    ELSE LET root == CHOOSE c \in ChangeOfCommit(head) : TRUE
             planned == PlanSteps(DependencyGraphOf(g, root), status)
         IN  IF ~planned.ok THEN Failed("NoParent")
             ELSE [ ok |-> TRUE,
                    todo |-> [ before |-> [ change |-> IF headKnown
                                                       THEN ChangeOfCommit(head) ELSE {},
                                            commit |-> head ],
                               graph |-> planned.graph,
                               steps |-> planned.steps,
                               refs |-> << >>,
                               in_progress |-> {} ] ]

\* A plausible slip: create_todo plans without looking for an existing file.
GetOrCreateTodoAlways(file, head, g, status, remoteOk, headKnown) ==
    LET made == CreateTodo(Absent, head, g, status, remoteOk, headKnown)
    IN  IF made.ok THEN [ ok |-> TRUE, created |-> TRUE, todo |-> made.todo ] ELSE made

\* A plausible slip: a file that does not deserialize counts as no file.
GetOrCreateTodoLenient(file, head, g, status, remoteOk, headKnown) ==
    IF file.state = "valid"
    THEN [ ok |-> TRUE, created |-> FALSE, todo |-> file.todo ]
    ELSE LET made == CreateTodo(Absent, head, g, status, remoteOk, headKnown)
         IN  IF made.ok THEN [ ok |-> TRUE, created |-> TRUE, todo |-> made.todo ]
             ELSE made

\* get_or_create_todo: the todo on disk, or a new one when there is none.
GetOrCreateTodo(file, head, g, status, remoteOk, headKnown) ==
    IF file.state = "corrupt" THEN Failed("TodoCorrupt")
    ELSE IF file.state = "valid"
    THEN [ ok |-> TRUE, created |-> FALSE, todo |-> file.todo ]
    ELSE LET made == CreateTodo(file, head, g, status, remoteOk, headKnown)
         IN  IF made.ok THEN [ ok |-> TRUE, created |-> TRUE, todo |-> made.todo ]
             ELSE made

\* A plausible slip: the supplied commit is recorded and the todo not written.
HandleInProgressUnwritten(todo, opts, g, contOk, remoteOk) ==
    IF todo.in_progress = {}
    THEN [ ok |-> TRUE, todo |-> todo, written |-> FALSE, git |-> g ]
    ELSE
    LET step == CHOOSE ip \in todo.in_progress : TRUE
        taken == [ todo EXCEPT !.in_progress = {} ]
        Record(new) == [ taken EXCEPT !.refs =
            RefsInsert(@, step.inner.change, RefUpdate(step.old_head, new)) ]
    IN  IF opts.restart_in_progress
        THEN [ ok |-> TRUE, written |-> FALSE, git |-> g,
               todo |-> [ taken EXCEPT !.steps = << step.inner >> \o @ ] ]
        ELSE IF opts.in_progress_commit # {}
        THEN [ ok |-> TRUE, written |-> FALSE, git |-> g,
               todo |-> Record(CHOOSE x \in opts.in_progress_commit : TRUE) ]
        ELSE IF g.rebase_in_progress
        THEN IF contOk
             THEN LET head == Rewritten(CHOOSE x \in g.picking : TRUE)
                  IN  [ ok |-> TRUE, written |-> TRUE, git |-> GitAt(head),
                        todo |-> Record(head) ]
             ELSE Failed("Conflict")
        ELSE IF ChangeOfCommit(g.head) = {} THEN Failed("NoChangeId")
        ELSE IF ~remoteOk THEN Failed("RemoteFailed")
        ELSE IF ChangeOfCommit(g.head) = { step.inner.change }
        THEN [ ok |-> TRUE, written |-> TRUE, git |-> g, todo |-> Record(g.head) ]
        ELSE Failed("CannotFindCommit")

\* A plausible slip: HEAD is read before `git rebase --continue` has run.
HandleInProgressStaleHead(todo, opts, g, contOk, remoteOk) ==
    IF todo.in_progress = {}
    THEN [ ok |-> TRUE, todo |-> todo, written |-> FALSE, git |-> g ]
    ELSE
    LET step == CHOOSE ip \in todo.in_progress : TRUE
        taken == [ todo EXCEPT !.in_progress = {} ]
        Record(new) == [ taken EXCEPT !.refs =
            RefsInsert(@, step.inner.change, RefUpdate(step.old_head, new)) ]
    IN  IF opts.restart_in_progress
        THEN [ ok |-> TRUE, written |-> FALSE, git |-> g,
               todo |-> [ taken EXCEPT !.steps = << step.inner >> \o @ ] ]
        ELSE IF opts.in_progress_commit # {}
        THEN [ ok |-> TRUE, written |-> TRUE, git |-> g,
               todo |-> Record(CHOOSE x \in opts.in_progress_commit : TRUE) ]
        ELSE IF g.rebase_in_progress
        THEN IF contOk
             THEN LET head == Rewritten(CHOOSE x \in g.picking : TRUE)
                  IN  [ ok |-> TRUE, written |-> TRUE, git |-> GitAt(head),
                        todo |-> Record(g.head) ]
             ELSE Failed("Conflict")
        ELSE IF ChangeOfCommit(g.head) = {} THEN Failed("NoChangeId")
        ELSE IF ~remoteOk THEN Failed("RemoteFailed")
        ELSE IF ChangeOfCommit(g.head) = { step.inner.change }
        THEN [ ok |-> TRUE, written |-> TRUE, git |-> g, todo |-> Record(g.head) ]
        ELSE Failed("CannotFindCommit")

\* restack, lines 176-249: what becomes of the step in progress.
\* contOk: `git rebase --continue` ran through.
\* [ok, todo, written, git], or [ok, error].
HandleInProgress(todo, opts, g, contOk, remoteOk) ==
    IF todo.in_progress = {}
    THEN [ ok |-> TRUE, todo |-> todo, written |-> FALSE, git |-> g ]
    ELSE
    LET step == CHOOSE ip \in todo.in_progress : TRUE
        taken == [ todo EXCEPT !.in_progress = {} ]
        Record(new) == [ taken EXCEPT !.refs =
            RefsInsert(@, step.inner.change, RefUpdate(step.old_head, new)) ]
    IN  IF opts.restart_in_progress
        THEN [ ok |-> TRUE, written |-> FALSE, git |-> g,
               todo |-> [ taken EXCEPT !.steps = << step.inner >> \o @ ] ]
        ELSE IF opts.in_progress_commit # {}
        THEN [ ok |-> TRUE, written |-> TRUE, git |-> g,
               todo |-> Record(CHOOSE x \in opts.in_progress_commit : TRUE) ]
        ELSE IF g.rebase_in_progress
        THEN IF contOk
             THEN LET head == Rewritten(CHOOSE x \in g.picking : TRUE)
                  IN  [ ok |-> TRUE, written |-> TRUE, git |-> GitAt(head),
                        todo |-> Record(head) ]
             ELSE Failed("Conflict")
        ELSE IF ChangeOfCommit(g.head) = {} THEN Failed("NoChangeId")
        ELSE IF ~remoteOk THEN Failed("RemoteFailed")
        ELSE IF ChangeOfCommit(g.head) = { step.inner.change }
        THEN [ ok |-> TRUE, written |-> TRUE, git |-> g, todo |-> Record(g.head) ]
        ELSE Failed("CannotFindCommit")

\* How an invocation ended.
Ok(cmd) == [ cmd |-> cmd, status |-> "ok" ]

Running(cmd) == [ cmd |-> cmd, status |-> "running" ]

Error(cmd, error) == [ cmd |-> cmd, status |-> "error", error |-> error ]

\* A plausible slip: the todo is written back when the step in progress could
\* not be settled, after in_progress was taken out of it.
BeginRestackWritesOnFailure(cmd, todo, file, opts, contOk, remoteOk) ==
    LET handled == HandleInProgress(todo, opts, git, contOk, remoteOk)
    IN  IF ~handled.ok
        THEN /\ todoFile' = Written([ todo EXCEPT !.in_progress = {} ])
             /\ git' = git
             /\ pc' = "idle"
             /\ mem' = NoMem
             /\ result' = Error(cmd, handled.error)
        ELSE LET tree == FormatTree(handled.todo.graph)
             IN  /\ todoFile' = IF handled.written THEN Written(handled.todo) ELSE file
                 /\ git' = handled.git
                 /\ IF tree.ok
                    THEN /\ pc' = "restack"
                         /\ mem' = [ kind |-> "restack",
                                     todo |-> [ handled.todo EXCEPT !.graph = tree.graph ] ]
                         /\ result' = Running("restack")
                    ELSE /\ pc' = "idle"
                         /\ mem' = NoMem
                         /\ result' = Error(cmd, "NoSingleRoot")

\* restack, lines 176-262, on the todo it loaded: the step in progress is
\* settled, the tree is printed, and the loop is entered.
BeginRestack(cmd, todo, file, opts, contOk, remoteOk) ==
    LET handled == HandleInProgress(todo, opts, git, contOk, remoteOk)
    IN  IF ~handled.ok
        THEN /\ todoFile' = file
             /\ git' = git
             /\ pc' = "idle"
             /\ mem' = NoMem
             /\ result' = Error(cmd, handled.error)
        ELSE LET tree == FormatTree(handled.todo.graph)
             IN  /\ todoFile' = IF handled.written THEN Written(handled.todo) ELSE file
                 /\ git' = handled.git
                 /\ IF tree.ok
                    THEN /\ pc' = "restack"
                         /\ mem' = [ kind |-> "restack",
                                     todo |-> [ handled.todo EXCEPT !.graph = tree.graph ] ]
                         /\ result' = Running("restack")
                    ELSE /\ pc' = "idle"
                         /\ mem' = NoMem
                         /\ result' = Error(cmd, "NoSingleRoot")

\* The ghost record of a plan, taken when create_todo succeeds.
Planned(status, todo) ==
    [ made |-> TRUE, status |-> status, ok |-> TRUE, steps |-> todo.steps ]

\* The ghost record of an invocation that found a step in progress: the
\* flags it was given, and the todo and the repository it found.
Started(opts, todo, g) ==
    IF todo.in_progress = {} THEN NoExec
    ELSE [ kind |-> "start",
           restart_in_progress |-> opts.restart_in_progress,
           in_progress_commit |-> opts.in_progress_commit,
           in_progress |-> todo.in_progress,
           steps |-> todo.steps, refs |-> todo.refs,
           rebase_in_progress |-> g.rebase_in_progress,
           picking |-> g.picking, head |-> g.head ]

\* `git-gr restack` and `git-gr restack continue [flags]`, up to the loop,
\* in a behaviour in which at most `limit` todos are planned.
RestackStartUpTo(limit) ==
    /\ pc = "idle"
    /\ todoFile = Absent => plans < limit
    /\ \E opts \in OptionInputs(todoFile, git.head),
          status \in IF todoFile = Absent THEN RemoteStatuses ELSE { AllNew },
          remoteOk \in IF NeedsRemote(todoFile, git) THEN BOOLEAN ELSE { TRUE },
          contOk \in IF git.rebase_in_progress THEN BOOLEAN ELSE { TRUE },
          headKnown \in IF todoFile = Absent THEN BOOLEAN ELSE { TRUE } :
          LET cmd == IF opts.given THEN "restack continue" ELSE "restack"
              loaded == GetOrCreateTodo(todoFile, git.head, graph, status,
                                        remoteOk, headKnown)
          IN  IF ~loaded.ok
              THEN /\ result' = Error(cmd, loaded.error)
                   /\ exec' = NoExec
                   /\ UNCHANGED << todoFile, git, pc, mem, plan, plans >>
              ELSE /\ plan' = IF loaded.created THEN Planned(status, loaded.todo) ELSE plan
                   /\ plans' = IF loaded.created THEN plans + 1 ELSE plans
                   /\ exec' = Started(opts, loaded.todo, git)
                   /\ BeginRestack(cmd, loaded.todo,
                                   IF loaded.created THEN Written(loaded.todo) ELSE todoFile,
                                   opts, contOk, remoteOk)
    /\ done' = NoDone
    /\ UNCHANGED << graph, call, gerritVars, pushFile, patchset, published >>

\* `git-gr restack` and `git-gr restack continue [flags]`, up to the loop.
RestackStart == RestackStartUpTo(MaxPlans)

\* Gerrit::push of HEAD: the remote takes HEAD as the patchset of its change.
GerritPush(ps, head) ==
    [ c \in Changes |-> IF ChangeOfCommit(head) = { c } THEN head ELSE ps[c] ]

\* `git-gr push --restack` (main.rs, lines 61-77): plan, write the todo,
\* push the branch, restack.
PushRestackStart ==
    /\ pc = "idle"
    /\ todoFile = Absent => plans < MaxPlans
    /\ \E status \in IF todoFile = Absent THEN RemoteStatuses ELSE { AllNew },
          remoteOk \in IF todoFile = Absent THEN BOOLEAN ELSE { TRUE },
          headKnown \in IF todoFile = Absent THEN BOOLEAN ELSE { TRUE },
          pushOk \in IF todoFile = Absent THEN BOOLEAN ELSE { TRUE } :
          LET made == CreateTodo(todoFile, git.head, graph, status, remoteOk, headKnown)
          IN  IF ~made.ok
              THEN /\ result' = Error("push --restack", made.error)
                   /\ UNCHANGED << todoFile, git, pc, mem, plan, plans, patchset >>
              ELSE /\ plan' = Planned(status, made.todo)
                   /\ plans' = plans + 1
                   /\ IF ~pushOk
                      THEN /\ todoFile' = Written(made.todo)
                           /\ result' = Error("push --restack", "PushFailed")
                           /\ UNCHANGED << git, pc, mem, patchset >>
                      ELSE /\ patchset' = GerritPush(patchset, git.head)
                           /\ BeginRestack("push --restack", made.todo,
                                           Written(made.todo), NoOptions, TRUE, TRUE)
    /\ exec' = NoExec
    /\ done' = NoDone
    /\ UNCHANGED << graph, call, gerritVars, pushFile, published >>

\* A plausible slip: the failed step is put back on the queue.
FailedTodoRequeued(popped, step, old_head) ==
    [ popped EXCEPT !.steps = << step >> \o @ ]

\* A plausible slip: the failed step is recorded as in progress and stays at
\* the front of the queue as well.
FailedTodoKeepsStep(popped, step, old_head) ==
    [ popped EXCEPT !.steps = << step >> \o @,
                    !.in_progress = { InProgress(step, old_head) } ]

\* restack, lines 285-287: the todo written when perform_step failed.
FailedTodo(popped, step, old_head) ==
    [ popped EXCEPT !.in_progress = { InProgress(step, old_head) } ]

\* How one iteration of the loop of restack may go.
StepOutcomes ==
    { "fetch_failed",   \* line 271: the patchset could not be fetched
      "failed_early",   \* perform_step failed before the rewrite started
      "conflict",       \* the rewrite stopped on a conflict
      "failed_late",    \* the rewrite ran through, reading its result failed
      "noop",           \* the pick fast-forwarded: the commit is unchanged
      "rewritten" }     \* the pick made a new commit

\* The pick can only fast-forward onto a commit the remote already had.
CanFastForward(onto, ps) ==
    IF onto.kind = "ref" THEN TRUE ELSE onto.commit \in { ps[c] : c \in Changes }

\* One iteration of the loop of restack (lines 270-291): pop a step,
\* perform it, write the todo.
RestackStep ==
    /\ pc = "restack"
    /\ mem.todo.steps # << >>
    /\ \E outcome \in StepOutcomes :
          LET step == Head(mem.todo.steps)
              popped == [ mem.todo EXCEPT !.steps = Tail(@) ]
              old_head == patchset[step.change]
              onto == StepOnto(popped, step, patchset)
              picks == { patchset[c] : c \in RebaseTodoPick(todoFile) }
              failed == FailedTodo(popped, step, old_head)
              Fails(error) ==
                  /\ todoFile' = Written(failed)
                  /\ pc' = "idle"
                  /\ mem' = NoMem
                  /\ result' = Error(result.cmd, error)
              Succeeds(new) ==
                  LET after == [ popped EXCEPT !.refs =
                                     RefsInsert(@, step.change, RefUpdate(old_head, new)) ]
                  IN  /\ todoFile' = Written(after)
                      /\ mem' = [ mem EXCEPT !.todo = after ]
                      /\ git' = GitAt(new)
                      /\ UNCHANGED << pc, result >>
              NotRun ==
                  [ kind |-> "step", step |-> step, outcome |-> outcome,
                    refs |-> popped.refs, rebased |-> FALSE ]
              Ran(picked) ==
                  [ kind |-> "step", step |-> step, outcome |-> outcome,
                    refs |-> popped.refs, rebased |-> TRUE,
                    onto |-> onto, picked |-> picked ]
          IN  CASE outcome = "fetch_failed" ->
                     /\ pc' = "idle"
                     /\ mem' = NoMem
                     /\ result' = Error(result.cmd, "FetchFailed")
                     /\ exec' = NotRun
                     /\ UNCHANGED << todoFile, git >>
                [] outcome = "failed_early" \/ picks = {} ->
                     /\ outcome = "failed_early"
                     /\ Fails("StepFailed")
                     /\ exec' = NotRun
                     /\ UNCHANGED git
                [] OTHER ->
                     \E picked \in picks :
                        /\ exec' = Ran(picked)
                        /\ CASE outcome = "conflict" ->
                                  /\ Fails("Conflict")
                                  /\ git' = GitConflict(OntoCommit(onto), picked, git.head)
                             [] outcome = "failed_late" ->
                                  /\ Fails("StepFailed")
                                  /\ git' = GitAt(Rewritten(picked))
                             [] outcome = "noop" ->
                                  /\ CanFastForward(onto, patchset)
                                  /\ Succeeds(picked)
                             [] OTHER -> Succeeds(Rewritten(picked))
    /\ done' = NoDone
    /\ UNCHANGED << graph, call, gerritVars, plan, pushFile, patchset, published, plans >>

\* A plausible slip: restack always returns to where it started.
RestoreCommitBefore(before, push) == before.commit

\* The commit restack returns to (lines 314-321): the rewritten commit of the
\* change it started on when the push todo has one, else where it started.
RestoreCommit(before, push) ==
    IF before.change # {} /\ before.change \subseteq DOMAIN push.refs
    THEN push.refs[CHOOSE c \in before.change : TRUE].new
    ELSE before.commit

\* The end of restack (lines 293-325): remove the todo, write the push todo
\* unless it is empty, check out the commit to return to.
RestackComplete ==
    /\ pc = "restack"
    /\ mem.todo.steps = << >>
    /\ \E checkoutOk \in BOOLEAN :
          LET push == PushTodoFrom(mem.todo)
              restore == RestoreCommit(mem.todo.before, push)
              written == ~IsEmpty(push)
          IN  /\ todoFile' = Absent
              /\ pushFile' = IF written THEN Written(push) ELSE pushFile
              /\ published' = IF written
                              THEN [ pending |-> push.refs, log |-> << >> ]
                              ELSE published
              /\ git' = IF checkoutOk THEN GitAt(restore) ELSE git
              /\ result' = IF checkoutOk THEN Ok(result.cmd)
                           ELSE Error(result.cmd, "CheckoutFailed")
              /\ done' = [ completed |-> TRUE, refs |-> mem.todo.refs,
                           before |-> mem.todo.before, wrote_push |-> written,
                           checked_out |-> checkoutOk ]
    /\ pc' = "idle"
    /\ mem' = NoMem
    /\ exec' = NoExec
    /\ UNCHANGED << graph, call, gerritVars, plan, patchset, plans >>

\* The ghost record of an abort: what it found.
Aborted(file, g) ==
    [ kind |-> "abort", file |-> file.state,
      rebase_in_progress |-> g.rebase_in_progress, head |-> g.head ]

\* A plausible slip: the todo is removed and the rebase is left as it is.
RestackAbortTodoOnly ==
    /\ pc = "idle"
    /\ todoFile' = Absent
    /\ git' = git
    /\ result' = Ok("restack abort")
    /\ exec' = Aborted(todoFile, git)
    /\ done' = NoDone
    /\ UNCHANGED << graph, call, gerritVars, plan, pushFile, pc, mem, patchset, published,
                    plans >>

\* `git-gr restack abort` (restack_abort, lines 347-359).
RestackAbort ==
    /\ pc = "idle"
    /\ todoFile' = Absent
    /\ git' = IF git.rebase_in_progress
              THEN GitAt(CHOOSE c \in git.orig_head : TRUE)
              ELSE git
    /\ result' = Ok("restack abort")
    /\ exec' = Aborted(todoFile, git)
    /\ done' = NoDone
    /\ UNCHANGED << graph, call, gerritVars, plan, pushFile, pc, mem, patchset, published,
                    plans >>

(* ---------------------------- restack push ----------------------------- *)

\* A plausible slip: the entry is read and left in the map.
RefsKeep(refs, change) == refs

\* BTreeMap::remove on refs.
RefsRemove(refs, change) == [ c \in DOMAIN refs \ { change } |-> refs[c] ]

\* A plausible slip: the walk starts at the change the graph was built from.
PushRootOfGraph(g) == { g.root }

\* restack_push, line 64: the change the walk starts at.
PushRoot(g) == DependencyRoot(g)

\* `git-gr restack push`, up to its loop (restack_push, lines 61-80).
PushStart ==
    /\ pc = "idle"
    /\ IF pushFile.state # "valid"
       THEN /\ result' = Error("restack push", "NoPushTodo")
            /\ UNCHANGED << pc, mem >>
       ELSE LET tree == FormatTree(pushFile.todo.graph)
            IN  IF ~tree.ok
                THEN /\ result' = Error("restack push", "NoSingleRoot")
                     /\ UNCHANGED << pc, mem >>
                ELSE LET root == CHOOSE r \in PushRoot(pushFile.todo.graph) : TRUE
                     IN  /\ pc' = "push"
                         /\ mem' = [ kind |-> "push",
                                     todo |-> [ pushFile.todo EXCEPT !.graph = tree.graph ],
                                     queue |-> << root >>, seen |-> { root } ]
                         /\ result' = Running("restack push")
    /\ exec' = NoExec
    /\ done' = NoDone
    /\ UNCHANGED << graph, call, gerritVars, plan, todoFile, pushFile, git, patchset,
                    published, plans >>

\* How the push of one change may go.
PushOutcomes == { "get_change_failed", "push_failed", "pushed" }

\* One iteration of the loop of restack_push (lines 82-102): publish the
\* change if it is pending, write the todo, queue the children.
PushVisit ==
    /\ pc = "push"
    /\ mem.queue # << >>
    /\ \E outcome \in PushOutcomes :
          LET change == Head(mem.queue)
              pending == change \in DOMAIN mem.todo.refs
              removed == [ mem.todo EXCEPT !.refs = RefsRemove(@, change) ]
              nb == NeededBy(removed.graph, change)
              next == EnqueueUnseen([ queue |-> Tail(mem.queue), seen |-> mem.seen ],
                                    SortedSeq(nb.set))
          IN  IF pending /\ outcome # "pushed"
              THEN /\ pc' = "idle"
                   /\ mem' = NoMem
                   /\ result' = Error("restack push", outcome)
                   /\ UNCHANGED << pushFile, patchset, published >>
              ELSE /\ outcome = "pushed"
                   /\ IF pending
                      THEN /\ published' = [ published EXCEPT !.log = Append(@,
                                  [ change |-> change,
                                    commit |-> mem.todo.refs[change].new,
                                    remote |-> Remote,
                                    branch |-> TargetBranch(change) ]) ]
                           /\ patchset' = [ patchset EXCEPT
                                              ![change] = mem.todo.refs[change].new ]
                           /\ pushFile' = Written(removed)
                      ELSE UNCHANGED << pushFile, patchset, published >>
                   /\ IF next.queue = << >>
                      THEN /\ pc' = "idle"
                           /\ mem' = NoMem
                           /\ result' = Ok("restack push")
                      ELSE /\ mem' = [ kind |-> "push",
                                       todo |-> [ removed EXCEPT !.graph = nb.graph ],
                                       queue |-> next.queue, seen |-> next.seen ]
                           /\ UNCHANGED << pc, result >>
    /\ UNCHANGED << graph, call, gerritVars, plan, todoFile, git, exec, done, plans >>

(* --------------------------- the environment --------------------------- *)

\* The user resolves the conflict and runs `git rebase --continue` by hand.
UserRebaseContinue ==
    /\ pc = "idle"
    /\ git.rebase_in_progress
    /\ git' = GitAt(Rewritten(CHOOSE x \in git.picking : TRUE))
    /\ exec' = NoExec
    /\ done' = NoDone
    /\ UNCHANGED << graph, call, gerritVars, plan, todoFile, pushFile, pc, mem, patchset,
                    published, result, plans >>

\* The todo file is damaged between invocations: a torn write or an edit.
CorruptTodo ==
    /\ pc = "idle"
    /\ todoFile.state = "valid"
    /\ todoFile' = Corrupt
    /\ exec' = NoExec
    /\ done' = NoDone
    /\ UNCHANGED << graph, call, gerritVars, plan, pushFile, pc, mem, git, patchset,
                    published, result, plans >>

(* -------------------------- the specification -------------------------- *)

Init ==
    /\ graph \in GraphInputs
    /\ call = NoCall
    /\ plan = NoPlan
    /\ RestackIdle(LocalCommit(graph.root))
    /\ GerritIdle

Next ==
    \/ RestackStart
    \/ PushRestackStart
    \/ RestackStep
    \/ RestackComplete
    \/ RestackAbort
    \/ PushStart
    \/ PushVisit
    \/ UserRebaseContinue
    \/ CorruptTodo

Spec == Init /\ [][Next]_vars

(* ------------------------ claims on the graph -------------------------- *)

\* The change numbers of a step queue, in queue order.
StepChanges(steps) == [ i \in 1 .. Len(steps) |-> steps[i].change ]

\* The linear stack 10 <- 11 <- 12.
LinearStack == (11 :> 10) @@ (12 :> 11)

\* C1: in the step queue planned by create_todo for a graph built through
\* insert, the step of a parent is earlier in the queue than the step of
\* each of its children; the stack 10 <- 11 <- 12 is planned as 10, 11, 12.
C1_ParentStepFirst ==
    (plan.made /\ plan.ok) =>
        /\ \A i, j \in 1 .. Len(plan.steps) :
              DependsOn(graph, plan.steps[j].change) = { plan.steps[i].change } => i < j
        /\ (/\ graph.dependencies = LinearStack
            /\ graph.root \in { 10, 11, 12 }
            /\ \A c \in Changes : plan.status[c] = "New")
              => StepChanges(plan.steps) = << 10, 11, 12 >>

\* A plan of three steps in which every later step depends on the one before.
C1_Witness ==
    /\ plan.made /\ plan.ok
    /\ Len(plan.steps) = 3
    /\ \A j \in 2 .. 3 :
          DependsOn(graph, plan.steps[j].change) = { plan.steps[j - 1].change }

\* C7: an insert of (C, B) while depends_on(C) = A with A # B fails and
\* leaves the graph as it was: depends_on(C) is still A and B has no
\* reverse edge to C.
C7_ConflictingInsertRejected ==
    [][ call'.op = "insert" =>
          LET c == call'.change
              b == call'.depends_on
          IN  (DependsOn(graph, c) # {} /\ DependsOn(graph, c) # {b}) =>
                  /\ ~call'.ok
                  /\ graph' = graph
                  /\ DependsOn(graph', c) = DependsOn(graph, c)
                  /\ c \notin ReverseSet(graph', b) ]_vars

\* An insert that was rejected because the change already had a parent.
C7_Witness ==
    /\ call.op = "insert"
    /\ ~call.ok
    /\ DependsOn(graph, call.change) # {}
    /\ DependsOn(graph, call.change) # { call.depends_on }

\* C8: reverse_dependencies[P] contains C exactly when dependencies[C] = P,
\* after any sequence of insert, depends_on and needed_by calls.
C8_ReverseEdgesMirror ==
    \A p \in Changes, c \in Changes :
        c \in ReverseSet(graph, p) <=> DependsOn(graph, c) = {p}

\* A parent with two children, a lazily created empty reverse set, and a
\* rejected insert as the last call.
C8_Witness ==
    /\ call.op = "insert" /\ ~call.ok
    /\ \E p \in Changes : Cardinality(ReverseSet(graph, p)) = 2
    /\ \E q \in DOMAIN graph.reverse_dependencies : graph.reverse_dependencies[q] = {}

(* ------------------------- claims on the restack ----------------------- *)

\* The steps of a queue after the step of `change`.
RECURSIVE StepsAfter(_, _)
StepsAfter(steps, change) ==
    IF steps = << >> THEN << >>
    ELSE IF Head(steps).change = change THEN Tail(steps)
    ELSE StepsAfter(Tail(steps), change)

\* The changes whose steps are before the step of `change` in a queue.
RECURSIVE ChangesBefore(_, _)
ChangesBefore(steps, change) ==
    IF steps = << >> \/ Head(steps).change = change THEN {}
    ELSE { Head(steps).change } \cup ChangesBefore(Tail(steps), change)

\* The todo on disk records the step of the iteration just performed as in
\* progress with its old head, holds the planned steps after it, and refs
\* holds the steps before it.
FailurePersisted ==
    /\ todoFile.state = "valid"
    /\ todoFile.todo.in_progress =
           { InProgress(exec.step, patchset[exec.step.change]) }
    /\ todoFile.todo.steps = StepsAfter(plan.steps, exec.step.change)
    /\ todoFile.todo.refs = exec.refs
    /\ DOMAIN exec.refs = ChangesBefore(plan.steps, exec.step.change)

\* The todo on disk still holds the step of the iteration just performed as
\* a step to execute, at the front of the queue or, after a restart, as the
\* step in progress.
StillPending ==
    /\ todoFile.state = "valid"
    /\ todoFile.todo.refs = exec.refs
    /\ DOMAIN exec.refs = ChangesBefore(plan.steps, exec.step.change)
    /\ \/ /\ todoFile.todo.in_progress = {}
          /\ todoFile.todo.steps =
                 << exec.step >> \o StepsAfter(plan.steps, exec.step.change)
       \/ /\ \E ip \in todoFile.todo.in_progress : ip.inner = exec.step
          /\ todoFile.todo.steps = StepsAfter(plan.steps, exec.step.change)

\* The iterations in which perform_step failed.
PerformStepFailed == { "failed_early", "conflict", "failed_late" }

C3_OntoUpdatedParent ==
    (exec.kind = "step" /\ exec.rebased /\ exec.step.onto.kind = "Change") =>
        LET parent == exec.step.onto.parent
        IN  /\ exec.onto.kind = "commit"
            /\ IF parent \in DOMAIN exec.refs
               THEN /\ exec.onto.commit = exec.refs[parent].new
                    /\ exec.refs[parent].old # exec.refs[parent].new
                           => exec.onto.commit # exec.refs[parent].old
               ELSE exec.onto.commit = patchset[parent]

\* A non-root step was rewritten while refs recorded a new commit for its
\* parent.
C3_Witness ==
    /\ exec.kind = "step"
    /\ exec.rebased
    /\ exec.outcome = "rewritten"
    /\ exec.step.onto.kind = "Change"
    /\ exec.step.onto.parent \in DOMAIN exec.refs
    /\ exec.refs[exec.step.onto.parent].old # exec.refs[exec.step.onto.parent].new

\* The entries of refs whose commit changed.
ChangedRefs(refs) ==
    [ c \in { x \in DOMAIN refs : refs[x].old # refs[x].new } |-> refs[c] ]

\* C4: when the step queue is empty restack deletes the restack todo file,
\* writes the push todo made of the entries of refs that changed, and checks
\* out the new commit recorded for the change the user started on if that
\* change was rewritten, else the commit recorded in before.
C4_CompletionRestoresPosition ==
    done.completed =>
        /\ todoFile = Absent
        /\ DOMAIN ChangedRefs(done.refs) # {} =>
               /\ pushFile.state = "valid"
               /\ pushFile.todo.refs = ChangedRefs(done.refs)
        /\ done.wrote_push <=> DOMAIN ChangedRefs(done.refs) # {}
        /\ done.checked_out =>
               /\ git = GitAt(git.head)
               /\ \A c \in done.before.change :
                      git.head = IF c \in DOMAIN ChangedRefs(done.refs)
                                 THEN done.refs[c].new
                                 ELSE done.before.commit
               /\ done.before.change = {} => git.head = done.before.commit

\* A restack completed in which the change the user started on was
\* rewritten, and the new commit is checked out.
C4_Witness ==
    /\ done.completed
    /\ done.checked_out
    /\ \E c \in done.before.change :
          /\ c \in DOMAIN ChangedRefs(done.refs)
          /\ git.head = done.refs[c].new
          /\ git.head # done.before.commit
    /\ \E x \in DOMAIN done.refs : done.refs[x].old = done.refs[x].new

(* ----------------------- claims on restack push ------------------------ *)

\* The changes published from the push todo so far.
Logged == { published.log[i].change : i \in 1 .. Len(published.log) }

\* C5: restack_push publishes parents before children: when C depends on P
\* and both were pending in the push todo, a publish of C comes after the
\* publish of P, over all the invocations that publish from the todo.
C5_ParentsPublishedFirst ==
    \A j \in 1 .. Len(published.log) :
        \A p \in DependsOn(graph, published.log[j].change) :
            p \in DOMAIN published.pending =>
                /\ \E i \in 1 .. (j - 1) : published.log[i].change = p
                /\ \A i \in j .. Len(published.log) : published.log[i].change # p

\* A parent and its child were both pending and were published in that
\* order, and restack_push ended successfully.
C5_Witness ==
    /\ Len(published.log) >= 2
    /\ \E i, j \in 1 .. Len(published.log) :
          /\ i < j
          /\ DependsOn(graph, published.log[j].change) = { published.log[i].change }
    /\ result = Ok("restack push")

C9_NeverClobbered ==
    [][ todoFile # Absent =>
          /\ plans' = plans
          /\ plan' = plan
          /\ ~CreateTodo(todoFile, git.head, graph, AllNew, TRUE, TRUE).ok
          /\ (result' # result /\ result'.cmd = "push --restack") =>
                 /\ result' = Error("push --restack", "TodoAlreadyExists")
                 /\ todoFile' = todoFile
          /\ (todoFile.state = "valid" /\ todoFile'.state = "valid") =>
                 /\ todoFile'.todo.before = todoFile.todo.before
                 /\ todoFile'.todo.graph.dependencies = todoFile.todo.graph.dependencies
                 /\ DOMAIN todoFile.todo.refs \subseteq DOMAIN todoFile'.todo.refs ]_vars

\* `push --restack` was refused while a todo with a recorded step and a
\* step in progress was on disk.
C9_Witness ==
    /\ todoFile.state = "valid"
    /\ todoFile.todo.in_progress # {}
    /\ DOMAIN todoFile.todo.refs # {}
    /\ result = Error("push --restack", "TodoAlreadyExists")

\* C10: while the todo file cannot be deserialized, restack and continue
\* fail: no step is executed, no todo is planned, and the file stays as it
\* is until abort removes it.
C10_CorruptTodoFatal ==
    [][ todoFile = Corrupt =>
          /\ plans' = plans
          /\ plan' = plan
          /\ pc' # "restack"
          /\ exec'.kind # "step"
          /\ todoFile' # Corrupt =>
                 (todoFile' = Absent /\ result' = Ok("restack abort"))
          /\ (result' # result /\ result'.cmd \in { "restack", "restack continue" }) =>
                 /\ result'.status = "error"
                 /\ result' = Error(result'.cmd, "TodoCorrupt")
                 /\ todoFile' = Corrupt ]_vars

\* `restack continue` failed on a todo file that cannot be deserialized.
C10_Witness ==
    /\ todoFile = Corrupt
    /\ result = Error("restack continue", "TodoCorrupt")

(* ------------------------ claims on the push todo ---------------------- *)

\* C11: the push todo derived from a completed restack todo holds exactly
\* the entries of refs whose old and new commits differ, each with the
\* update it had in refs; an entry whose commit did not change is left out.
C11_PushTodoHoldsChangedEntries ==
    (done.completed /\ done.wrote_push) =>
        /\ pushFile.state = "valid"
        /\ DOMAIN pushFile.todo.refs \subseteq DOMAIN done.refs
        /\ \A c \in DOMAIN done.refs :
               IF done.refs[c].old = done.refs[c].new
               THEN c \notin DOMAIN pushFile.todo.refs
               ELSE /\ c \in DOMAIN pushFile.todo.refs
                    /\ pushFile.todo.refs[c] = done.refs[c]

\* A restack completed whose refs held both a rewritten change and a change
\* left as it was, and the push todo written holds only the former.
C11_Witness ==
    /\ done.completed
    /\ done.wrote_push
    /\ pushFile.state = "valid"
    /\ \E c, d \in DOMAIN done.refs :
          /\ done.refs[c].old # done.refs[c].new
          /\ done.refs[d].old = done.refs[d].new
          /\ c \in DOMAIN pushFile.todo.refs
          /\ d \notin DOMAIN pushFile.todo.refs

\* C12: when a restack completes and no entry of refs changed, no push todo
\* file is written: the push todo file is what it was before the completion.
C12_NoChangeNoPushTodo ==
    [][ ( /\ ~done.completed
          /\ done'.completed
          /\ \A c \in DOMAIN done'.refs : done'.refs[c].old = done'.refs[c].new )
        => ( /\ pushFile' = pushFile
             /\ ~done'.wrote_push
             /\ published' = published ) ]_vars

\* A restack completed in which every step left its change as it was, and
\* there is no push todo file.
C12_Witness ==
    /\ done.completed
    /\ DOMAIN done.refs # {}
    /\ \A c \in DOMAIN done.refs : done.refs[c].old = done.refs[c].new
    /\ ~done.wrote_push
    /\ pushFile = Absent

\* C13: the push todo file is consumed destructively and deleted once its
\* pending map is empty: whenever no command is running, a push todo file
\* that exists still holds an entry awaiting publish.
C13_PushTodoDeletedWhenEmpty ==
    (pc = "idle" /\ pushFile.state = "valid") => DOMAIN pushFile.todo.refs # {}

RECURSIVE UpwardClosure(_, _)
UpwardClosure(g, S) ==
    LET T == S \cup { g.dependencies[c] : c \in S \cap DOMAIN g.dependencies }
    IN  IF T = S THEN S ELSE UpwardClosure(g, T)

\* C20: depends_on_roots returns exactly the changes without a parent that
\* are reached by walking depends_on links upward from the root of the graph;
\* for the chain 10 <- 11 <- 12 with root 12 it returns {10}.
C20_RootsAreParentlessAncestors ==
    call.op = "depends_on_roots" =>
        /\ call.result = { c \in UpwardClosure(graph, { graph.root }) :
                               c \notin DOMAIN graph.dependencies }
        /\ (graph.dependencies = LinearStack /\ graph.root = 12)
               => call.result = { 10 }

\* depends_on_roots was called on the chain 10 <- 11 <- 12 built from 12.
C20_Witness ==
    /\ call.op = "depends_on_roots"
    /\ graph.dependencies = LinearStack
    /\ graph.root = 12
    /\ call.result = { 10 }

(* --------------------- claims on restack continue ---------------------- *)

\* C16: on continue with restart-in-progress the failed step is pushed back
\* to the front of the queue, where it appears once and has no entry in
\* refs; it is the next step executed, which rewrites the patchset of its
\* change, and refs gets an entry for the change only when that succeeded,
\* the new commit being a commit of the change.
C16_RestartReexecutesFailedStep ==
    [][ /\ (exec'.kind = "start" /\ exec'.restart_in_progress) =>
             \A ip \in exec'.in_progress :
                 /\ pc' = "restack"
                 /\ mem'.todo.steps = << ip.inner >> \o exec'.steps
                 /\ \A i \in 1 .. Len(exec'.steps) :
                        exec'.steps[i].change # ip.inner.change
                 /\ ip.inner.change \notin DOMAIN mem'.todo.refs
        /\ (exec.kind = "start" /\ exec.restart_in_progress /\ exec'.kind = "step") =>
             \A ip \in exec.in_progress :
                 /\ exec'.step = ip.inner
                 /\ exec'.rebased => exec'.picked = patchset[ip.inner.change]
                 /\ ip.inner.change \in DOMAIN todoFile'.todo.refs =>
                        /\ exec'.outcome \in { "noop", "rewritten" }
                        /\ ChangeOfCommit(todoFile'.todo.refs[ip.inner.change].new)
                               = { ip.inner.change } ]_vars

\* C17: on continue with a commit supplied for the step in progress, refs
\* gets the entry {old: the old_head of the step in progress, new: the
\* supplied commit} for the change of the step, in_progress is cleared, the
\* todo is written, and the loop is entered with the queue that remained,
\* in which that step does not appear.
C17_SuppliedCommitRecorded ==
    (exec.kind = "start" /\ ~exec.restart_in_progress
        /\ exec.in_progress_commit # {}) =>
        \A ip \in exec.in_progress, commit \in exec.in_progress_commit :
            /\ pc = "restack"
            /\ todoFile.state = "valid"
            /\ todoFile.todo.in_progress = {}
            /\ todoFile.todo.steps = exec.steps
            /\ todoFile.todo.refs =
                   RefsInsert(exec.refs, ip.inner.change,
                              RefUpdate(ip.old_head, commit))
            /\ mem.todo.in_progress = {}
            /\ mem.todo.steps = exec.steps
            /\ mem.todo.refs = todoFile.todo.refs
            /\ \A i \in 1 .. Len(mem.todo.steps) :
                   mem.todo.steps[i].change # ip.inner.change
            /\ git.head = exec.head

\* `restack continue --in-progress-commit` was given the commit the user made
\* out of a conflict, with steps left in the queue and entries in refs.
C17_Witness ==
    /\ exec.kind = "start"
    /\ ~exec.restart_in_progress
    /\ exec.in_progress_commit # {}
    /\ exec.steps # << >>
    /\ DOMAIN exec.refs # {}
    /\ pc = "restack"
    /\ \E ip \in exec.in_progress :
          /\ ip.inner.change \in DOMAIN todoFile.todo.refs
          /\ todoFile.todo.refs[ip.inner.change].old = ip.old_head
          /\ todoFile.todo.refs[ip.inner.change].new \in exec.in_progress_commit
          /\ todoFile.todo.refs[ip.inner.change].new # ip.old_head

\* A continue without restart-in-progress and without a supplied commit.
PlainContinue ==
    /\ exec.kind = "start"
    /\ ~exec.restart_in_progress
    /\ exec.in_progress_commit = {}

\* The step in progress was recorded with `new` and the loop entered.
ContinuedWith(ip, new) ==
    /\ pc = "restack"
    /\ todoFile.state = "valid"
    /\ todoFile.todo.in_progress = {}
    /\ todoFile.todo.steps = exec.steps
    /\ todoFile.todo.refs =
           RefsInsert(exec.refs, ip.inner.change, RefUpdate(ip.old_head, new))
    /\ mem.todo.steps = exec.steps
    /\ mem.todo.refs = todoFile.todo.refs

\* The continue failed and left the todo on disk with its step in progress.
ContinueFailed ==
    /\ pc = "idle"
    /\ result.status = "error"
    /\ todoFile.state = "valid"
    /\ todoFile.todo.in_progress = exec.in_progress
    /\ todoFile.todo.steps = exec.steps
    /\ todoFile.todo.refs = exec.refs

\* C18 as stated: on continue without restart and without a supplied commit
\* the native continuation of the rewrite is invoked, and the head it
\* produces is recorded as the new commit of the step in progress, with old
\* the old_head of the step, before the remaining queue is executed.
C18_ContinueInvokesNative ==
    PlainContinue =>
        /\ exec.rebase_in_progress
        /\ pc = "restack" =>
               \A ip \in exec.in_progress, picked \in exec.picking :
                   /\ git = GitAt(Rewritten(picked))
                   /\ ContinuedWith(ip, git.head)

\* C18, amended: on continue without restart and without a supplied commit,
\* if a native rewrite is in progress its continuation is invoked and, when
\* it succeeds, the head it produces is recorded as the new commit of the
\* step in progress, with old the old_head of the step, before the remaining
\* queue is executed; if no native rewrite is in progress none is invoked and
\* HEAD is recorded as the new commit when HEAD is a commit of the change of
\* the step; in every other case continue fails and the todo stays as it was.
C18_ContinueRecordsHead ==
    PlainContinue =>
        \A ip \in exec.in_progress :
            IF pc = "restack"
            THEN /\ ContinuedWith(ip, git.head)
                 /\ ~git.rebase_in_progress
                 /\ IF exec.rebase_in_progress
                    THEN \A picked \in exec.picking : git = GitAt(Rewritten(picked))
                    ELSE /\ git.head = exec.head
                         /\ ChangeOfCommit(git.head) = { ip.inner.change }
            ELSE /\ ContinueFailed
                 /\ git.head = exec.head
                 /\ ~exec.rebase_in_progress =>
                        ChangeOfCommit(exec.head) # { ip.inner.change }
                        \/ result.error = "RemoteFailed"

\* A plain continue found a native rewrite in progress, continued it, and
\* recorded the head it produced, with steps left in the queue.
C18_Witness ==
    /\ PlainContinue
    /\ exec.rebase_in_progress
    /\ pc = "restack"
    /\ exec.steps # << >>
    /\ git.head # exec.head
    /\ \E ip \in exec.in_progress :
          /\ todoFile.todo.refs[ip.inner.change] = RefUpdate(ip.old_head, git.head)
          /\ git.head # ip.old_head

(* ----------------------- claims on restack abort ----------------------- *)

\* C19: after restack_abort no restack todo file exists and no native rewrite
\* is in progress, whatever the state before; with no todo file and no
\* rewrite in progress abort succeeds and changes nothing.
C19_AbortClearsRestack ==
    exec.kind = "abort" =>
        /\ todoFile = Absent
        /\ ~git.rebase_in_progress
        /\ result = Ok("restack abort")
        /\ pc = "idle"
        /\ (exec.file = "absent" /\ ~exec.rebase_in_progress) =>
               git = GitAt(exec.head)
        /\ ~exec.rebase_in_progress => git.head = exec.head

\* An abort found a todo file with a step in progress and a native rewrite
\* stopped at a conflict.
C19_Witness ==
    /\ exec.kind = "abort"
    /\ exec.file = "valid"
    /\ exec.rebase_in_progress
    /\ todoFile = Absent
    /\ ~git.rebase_in_progress
    /\ git.head # exec.head

(* ---------------------- a restack without failures -------------------- *)

\* An iteration of the loop of restack in which perform_step returns Ok.
CleanStep == RestackStep /\ exec'.outcome \in { "noop", "rewritten" }

\* The commands of a restack that meets no conflict and of the push after it.
NextEndToEnd ==
    RestackStart \/ CleanStep \/ RestackComplete \/ PushStart \/ PushVisit

SpecEndToEnd == Init /\ [][NextEndToEnd]_vars

\* C15: for the stack 10 <- 11 <- 12 of open changes, a restack without
\* conflicts in which 10 is rewritten (its target branch advanced) records
\* an update with old # new for each of 10, 11 and 12, and the restack_push
\* that follows publishes 10, then 11, then 12.
C15_StackRestackedThenPublishedInOrder ==
    (graph.dependencies = LinearStack /\ plan.made /\ plan.status = AllNew) =>
        /\ (done.completed /\ 10 \in DOMAIN ChangedRefs(done.refs)) =>
               /\ DOMAIN done.refs = { 10, 11, 12 }
               /\ \A c \in { 10, 11, 12 } : done.refs[c].old # done.refs[c].new
               /\ pushFile = Written([ graph |-> pushFile.todo.graph,
                                       refs |-> done.refs ])
        /\ (result = Ok("restack push") /\ 10 \in DOMAIN published.pending) =>
               [ i \in 1 .. Len(published.log) |-> published.log[i].change ]
                   = << 10, 11, 12 >>

\* The stack 10 <- 11 <- 12 was restacked, each change onto a new commit, and
\* restack_push returned after publishing 10, 11 and 12 in that order.
C15_Witness ==
    /\ graph.dependencies = LinearStack
    /\ plan.made
    /\ plan.status = AllNew
    /\ result = Ok("restack push")
    /\ \A c \in { 10, 11, 12 } :
          /\ c \in DOMAIN published.pending
          /\ published.pending[c].old # published.pending[c].new
          /\ patchset[c] = published.pending[c].new
    /\ [ i \in 1 .. 3 |-> published.log[i].change ] = << 10, 11, 12 >>
    /\ Len(published.log) = 3

(* -------------------------- claims on the plan ------------------------- *)

\* The changes without a parent that the walk upward from the root reaches.
RootsOf(g) ==
    { c \in UpwardClosure(g, { g.root }) : c \notin DOMAIN g.dependencies }

\* The changes of S and the changes below them through reverse-dependency
\* edges, descending only into the changes that Keep admits.
RECURSIVE Below(_, _, _)
Below(g, S, Keep) ==
    LET T == S \cup { c \in DOMAIN g.dependencies \cap Keep : g.dependencies[c] \in S }
    IN  IF T = S THEN S ELSE Below(g, T, Keep)

\* The number of steps of a queue that are steps of change c.
StepCount(steps, c) == Cardinality({ i \in 1 .. Len(steps) : steps[i].change = c })

\* C25 as stated: every change of the graph reachable from a root through
\* reverse-dependency edges has exactly one step in the queue planned by
\* create_todo, and no change has two.
C25_EveryReachableChangeHasOneStep ==
    (plan.made /\ plan.ok) =>
        /\ \A c \in Below(graph, RootsOf(graph), Changes) :
               StepCount(plan.steps, c) = 1
        /\ \A c \in Changes : StepCount(plan.steps, c) <= 1

\* C25, amended: no change has two steps, and a change has a step exactly
\* when it is open (status new) and is reached from an open root through
\* reverse-dependency edges by way of open changes only; a merged or
\* abandoned change has no step and the walk does not go below it.
C25_EveryOpenReachableChangeHasOneStep ==
    (plan.made /\ plan.ok) =>
        LET open == { c \in Changes : plan.status[c] = "New" }
            live == Below(graph, RootsOf(graph) \cap open, open)
        IN  /\ \A c \in Changes : StepCount(plan.steps, c) <= 1
            /\ \A c \in Changes : StepCount(plan.steps, c) = 1 <=> c \in live

\* A plan for a graph in which an open change lies below a merged one: the
\* root is planned, the merged change and the change below it are not.
C25_Witness ==
    /\ plan.made /\ plan.ok
    /\ Len(plan.steps) >= 1
    /\ \E c \in DOMAIN graph.dependencies :
          /\ plan.status[c] = "New"
          /\ plan.status[graph.dependencies[c]] # "New"
          /\ graph.dependencies[c] \in Below(graph, RootsOf(graph), Changes)
          /\ StepCount(plan.steps, c) = 0

\* C26: in the queue planned by create_todo the step of a change targets
\* the remote and the target branch of that change exactly when the change
\* has no recorded parent; the step of every other change targets the
\* recorded parent of the change.
C26_RootsOntoBranchOthersOntoParent ==
    (plan.made /\ plan.ok) =>
        \A i \in 1 .. Len(plan.steps) :
            LET step == plan.steps[i]
            IN  IF step.change \in DOMAIN graph.dependencies
                THEN step.onto = [ kind |-> "Change",
                                   parent |-> graph.dependencies[step.change] ]
                ELSE step.onto = [ kind |-> "Branch", remote |-> "origin",
                                   branch |-> TargetBranch(step.change) ]

\* A plan with a root step onto a branch other than main and the step of a
\* child of that root onto it.
C26_Witness ==
    /\ plan.made /\ plan.ok
    /\ \E i, j \in 1 .. Len(plan.steps) :
          /\ plan.steps[i].onto.kind = "Branch"
          /\ plan.steps[i].onto.branch = "release"
          /\ plan.steps[j].onto.kind = "Change"
          /\ plan.steps[j].onto.parent = plan.steps[i].change

(* ------------------------ claims on the root ---------------------------- *)

\* Every change the graph mentions that has no recorded parent.
Parentless(g) ==
    { c \in { g.root } \cup DOMAIN g.dependencies
                \cup { g.dependencies[x] : x \in DOMAIN g.dependencies } :
          c \notin DOMAIN g.dependencies }

\* C21: dependency_root succeeds, returning the single root, exactly when
\* the walk up from the root of the graph ends at one parentless change;
\* otherwise it fails with an error that lists every candidate, and
\* format_tree and restack_push fail with it before rendering anything or
\* starting the walk that publishes.
C21_SingleRootOrError ==
    LET roots == RootsOf(graph)
    IN  /\ call.op = "dependency_root" =>
              IF Cardinality(roots) = 1
              THEN call.ok /\ call.root = roots
              ELSE ~call.ok /\ call.root = {} /\ call.candidates = roots
        /\ call.op = "format_tree" => (call.ok <=> Cardinality(roots) = 1)
        /\ call.op = "restack_push" =>
              /\ call.ok <=> Cardinality(roots) = 1
              /\ call.ok => call.queue = SortedSeq(roots)
              /\ ~call.ok => call.queue = << >>

\* dependency_root has failed on a graph whose root is on a cycle of parents.
C21_Witness ==
    /\ call.op = "dependency_root"
    /\ ~call.ok
    /\ graph.root \in DOMAIN graph.dependencies
    /\ RootsOf(graph) = {}

Conflicting(edges) ==
    \E i, j \in 1 .. Len(edges) :
        edges[i][1] = edges[j][1] /\ edges[i][2] # edges[j][2]

\* C30: insertion is commutative up to conflicts: edges that give no change
\* two different parents yield the same dependencies and the same
\* reverse_dependencies in every insertion order, and edges that contain a
\* conflict end in the conflicting-parent error in every insertion order.
C30_InsertionOrderIrrelevant ==
    call.op = "insert_all" =>
        IF Conflicting(call.edges)
        THEN ~call.first.ok /\ ~call.second.ok
        ELSE /\ call.first.ok /\ call.second.ok
             /\ call.first.graph.dependencies = call.second.graph.dependencies
             /\ call.first.graph.reverse_dependencies =
                    call.second.graph.reverse_dependencies

\* Two different edges without a conflict have been inserted in both orders.
C30_Witness ==
    /\ call.op = "insert_all"
    /\ Len(call.edges) = 2
    /\ call.edges[1] # call.edges[2]
    /\ call.order[1] = 2
    /\ ~Conflicting(call.edges)
    /\ call.first.ok /\ call.second.ok

(* ------------------------- claims on traverse --------------------------- *)

\* The changes that are the child or the parent of an edge of g.
Endpoints(g) ==
    DOMAIN g.dependencies \cup { g.dependencies[c] : c \in DOMAIN g.dependencies }

\* The builder met c as a related change of a change that the dependsOn list
\* of c names: the related-changes (indirect) path.
ViaRelated(c) ==
    /\ c \in DOMAIN builder.dependencies
    /\ \E p \in DOMAIN builder.related :
          c \in builder.related[p] /\ p \in builder.dependencies[c].depends_on

\* C22, as stated: every change that is the parent or the child of an edge
\* of the graph traverse returns has status new.
C22_OnlyOpenChangesInGraph ==
    builder.state = "built" =>
        \A c \in Endpoints(graph) : remote.status[c] = "New"

\* C22, amended: every change that is the parent or the child of an edge of
\* the graph traverse builds has status new, unless it is the change the
\* traverse started from or it was discovered through the related-changes
\* path; the status of those is not read.
C22_ListedChangesInGraphAreOpen ==
    builder.state \in { "traversing", "built" } =>
        \A c \in Endpoints(graph) :
            \/ remote.status[c] = "New"
            \/ c = graph.root
            \/ ViaRelated(c)

\* traverse has returned a graph in which a change that is merged or
\* abandoned, and not the root, is the child of an edge.
C22_Witness ==
    /\ builder.state = "built"
    /\ \E c \in DOMAIN graph.dependencies :
          /\ remote.status[c] # "New"
          /\ c # graph.root
          /\ ViaRelated(c)

\* The dependsOn list of r, as filtered and kept by the builder, names c.
NamesParent(r, c) == c \in builder.dependencies[r].depends_on

\* C28: in an iteration of traverse for a change C that ends without error,
\* a change R returned by the related-changes query of C gets the edge
\* (R depends on C) and is enqueued if not yet seen exactly when the filtered
\* dependsOn list of R names C; a related change that does not name C gets
\* no edge and is not enqueued unless the own lists of C name it.
C28_RelatedEdgeIffNamesParent ==
    (call.op = "traverse" /\ call.ok) =>
        LET own == builder.dependencies[call.change]
        IN  \A r \in call.related :
              /\ (r \in call.indirect) <=> NamesParent(r, call.change)
              /\ NamesParent(r, call.change) =>
                    /\ << r, call.change >> \in call.inserted
                    /\ graph.dependencies[r] = call.change
                    /\ r \in builder.seen
              /\ (~NamesParent(r, call.change) /\ r \notin own.needed_by) =>
                    << r, call.change >> \notin call.inserted
              /\ (~NamesParent(r, call.change)
                      /\ r \notin own.needed_by \cup own.depends_on) =>
                    r \notin call.enqueued

\* An iteration has handled two related changes that the own lists of the
\* change do not name: one names the change as parent and got the edge and
\* was enqueued, the other does not and got neither.
C28_Witness ==
    /\ call.op = "traverse" /\ call.ok
    /\ \E r, q \in call.related \ {call.change} :
          /\ r \notin builder.dependencies[call.change].needed_by
          /\ NamesParent(r, call.change)
          /\ << r, call.change >> \in call.inserted
          /\ r \in call.enqueued
          /\ q \notin builder.dependencies[call.change].needed_by
          /\ q \notin builder.dependencies[call.change].depends_on
          /\ ~NamesParent(q, call.change)
          /\ q \notin Endpoints(graph)

\* Number of changes traverse has dequeued so far.
Dequeued(b) == Cardinality({ c \in Changes : b.dequeued[c] > 0 })

\* Each change enters and leaves the worklist at most once, the remote is
\* asked at most once per change for each kind of answer, and a traverse
\* that returns a graph has handled every change it has seen.
TraverseBounded ==
    /\ \A c \in Changes :
          /\ builder.enqueued[c] <= 1
          /\ builder.dequeued[c] <= builder.enqueued[c]
          /\ remote.dependencies[c] <= 1
          /\ remote.related[c] <= 1
    /\ builder.state = "built" =>
          /\ builder.queue = << >>
          /\ \A c \in builder.seen : builder.dequeued[c] = 1
    /\ builder.state = "failed" =>
          /\ call.op = "traverse" /\ ~call.ok
          /\ builder.error \in { "conflict", "remote" }

\* An iteration of a running traverse dequeues one more change or ends the
\* traverse, and no step follows the end of the traverse.
TraverseAdvances ==
    /\ builder.state = "traversing"
    /\ \/ builder'.state = "traversing" /\ Dequeued(builder') = Dequeued(builder) + 1
       \/ builder'.state = "failed" /\ Dequeued(builder') = Dequeued(builder) + 1
       \/ builder'.state = "built" /\ builder.queue = << >>

\* C29: traverse terminates whatever the remote answers, cyclic or
\* inconsistent answers included: every change is enqueued and dequeued at
\* most once, the remote is asked at most once per change for its
\* dependencies and at most once for its related changes, every iteration
\* dequeues a change not dequeued before, so that there are at most as many
\* iterations as changes, and the build ends with the worklist empty or with
\* the first error.
C29_TraverseTerminates ==
    /\ []TraverseBounded
    /\ [][TraverseAdvances]_vars

\* traverse has returned a graph in which all changes lie on one cycle of
\* parents.
C29_Witness ==
    /\ builder.state = "built"
    /\ builder.seen = Changes
    /\ DOMAIN graph.dependencies = Changes
    /\ RootsOf(graph) = {}

(* -------------------------- claims on the cache ------------------------- *)

C24_ReadFailureIsMiss ==
    (call.op \in GerritOps /\ call.read_failed /\ call.remote_ok) =>
        call.ok /\ call.asked /\ call.value = { call.version }

\* C24, amended: a cache read that fails is fatal for the call: get_change,
\* query, fetch_cl and http_request return the read error without asking
\* the remote and without storing anything. A read that succeeds returns the
\* entry it finds without asking the remote; on a miss query, fetch_cl and
\* http_request return what the remote reports.
C24_ReadFailureIsFatal ==
    call.op \in GerritOps =>
        /\ (call.read_failed \/ call.query_read_failed) =>
              /\ ~call.ok /\ call.error = "cache read"
              /\ ~call.asked
              /\ call.stored = {}
        /\ (~call.read_failed /\ call.found # {}) =>
              call.ok /\ call.value = call.found /\ ~call.asked
        /\ (~call.read_failed /\ call.found = {} /\ call.remote_ok
                /\ call.op # "get_change") =>
              call.ok /\ call.asked /\ call.value = { call.version }

\* The read of get_change has failed while the entry of the change was in
\* the cache and the remote was reachable, and get_change has returned the
\* error.
C24_Witness ==
    /\ call.op = "get_change"
    /\ call.read_failed /\ call.remote_ok
    /\ call.found # {}
    /\ ~call.ok

(* ---------------- claims on the persisted restack todo ----------------- *)

\* The changes of the steps of a queue.
QueuedChanges(steps) == { steps[i].change : i \in 1 .. Len(steps) }

\* The changes of the step in progress of a todo.
InProgressChanges(todo) == { ip.inner.change : ip \in todo.in_progress }

\* C32: in every todo on disk between planning and completion, each planned
\* change is in exactly one of the remaining steps, in_progress and refs:
\* none is in two of them or twice in the queue, none is lost, and refs has
\* no change outside the plan.
C32_PlannedChangesPartitioned ==
    (todoFile.state = "valid" /\ plan.made /\ plan.ok) =>
        LET todo == todoFile.todo
            S == QueuedChanges(todo.steps)
            I == InProgressChanges(todo)
            R == DOMAIN todo.refs
        IN  /\ S \cap I = {} /\ S \cap R = {} /\ I \cap R = {}
            /\ \A c \in S : StepCount(todo.steps, c) = 1
            /\ S \cup I \cup R = QueuedChanges(plan.steps)
            /\ R \subseteq QueuedChanges(plan.steps)

\* A todo on disk with one change in each of the three places.
C32_Witness ==
    /\ todoFile.state = "valid"
    /\ todoFile.todo.steps # << >>
    /\ todoFile.todo.in_progress # {}
    /\ DOMAIN todoFile.todo.refs # {}

\* The errors with which restack gives up on the step in progress: the
\* native continuation stopped again, or no commit of the change was found.
ContinueErrors == { "Conflict", "CannotFindCommit", "NoChangeId", "RemoteFailed" }

\* C34: when a continue fails on the step in progress, the todo on disk is
\* the one the continue found: in_progress, steps and refs are unchanged, so
\* continue or abort can be invoked again.
C34_FailedContinueLeavesTodo ==
    [][ (/\ exec'.kind = "start"
         /\ pc' = "idle"
         /\ result'.status = "error"
         /\ result'.error \in ContinueErrors) =>
            /\ todoFile' = todoFile
            /\ todoFile'.state = "valid"
            /\ todoFile'.todo.in_progress = exec'.in_progress
            /\ todoFile'.todo.steps = exec'.steps
            /\ todoFile'.todo.refs = exec'.refs ]_vars

\* A continue whose native continuation stopped on a conflict again, with
\* steps left in the queue and entries in refs.
C34_Witness ==
    /\ exec.kind = "start"
    /\ exec.rebase_in_progress
    /\ pc = "idle"
    /\ result.status = "error"
    /\ result.error = "Conflict"
    /\ todoFile.state = "valid"
    /\ todoFile.todo.in_progress # {}
    /\ todoFile.todo.steps # << >>
    /\ DOMAIN todoFile.todo.refs # {}

(* ---------------------- claims on push --restack ----------------------- *)

\* C39: when the push of `push --restack` fails, no restack todo file is left
\* on disk, so the same command can be invoked again without failing on an
\* existing todo.
C39_FailedPushLeavesNoTodo ==
    [][ (/\ plans' = plans + 1
         /\ result' = Error("push --restack", "PushFailed")) =>
            /\ todoFile' = Absent
            /\ CreateTodo(todoFile', git'.head, graph', AllNew, TRUE, TRUE).ok ]_vars

(* ------------------- claims on the frozen snapshot --------------------- *)

\* The edges of a graph: the parent of every change and the children of
\* every change, whichever keys the reverse map holds.
Edges(g) ==
    [ root |-> g.root,
      dependencies |-> g.dependencies,
      reverse |-> [ c \in Changes |-> ReverseSet(g, c) ] ]

\* The frozen part of a RestackTodo.
Snapshot(todo) == [ before |-> todo.before, edges |-> Edges(todo.graph) ]

\* C40: the graph and the before field of a RestackTodo are frozen: steps,
\* failures, continues and restarts leave before and the edges of graph as
\* planned, on disk and in memory, and the PushTodo written on completion
\* carries a graph with the same edges.
C40_SnapshotFrozen ==
    [][ /\ (todoFile.state = "valid" /\ todoFile'.state = "valid") =>
               Snapshot(todoFile'.todo) = Snapshot(todoFile.todo)
        /\ (pc = "restack" /\ pc' = "restack") =>
               Snapshot(mem'.todo) = Snapshot(mem.todo)
        /\ (pc' = "restack" /\ todoFile'.state = "valid") =>
               Snapshot(mem'.todo) = Snapshot(todoFile'.todo)
        /\ (pc = "restack" /\ done'.completed /\ done'.wrote_push) =>
               /\ pushFile'.state = "valid"
               /\ Edges(pushFile'.todo.graph) = Edges(mem.todo.graph) ]_vars

\* A restack of three changes has completed and left a push todo whose graph
\* has two edges, although one of the changes was not rewritten.
C40_Witness ==
    /\ done.completed /\ done.wrote_push
    /\ pushFile.state = "valid"
    /\ Cardinality(DOMAIN pushFile.todo.graph.dependencies) = 2
    /\ Cardinality(DOMAIN done.refs) = 3
    /\ \E c \in DOMAIN done.refs : ~HasChange(done.refs[c])

(* ----------------- claims on what refs comes to record ----------------- *)

\* The changes with an entry in refs of the todo on disk.
Recorded(file) == IF file.state = "valid" THEN DOMAIN file.todo.refs ELSE {}

\* C33: a change gets an entry in refs only once its rewrite has completed:
\* through a successful step for that change, a successful native
\* continuation, a commit the user supplied, or a HEAD that a completed
\* rewrite of the change left behind; a step that failed before the rewrite
\* began is not recorded by a later continue without being executed again.
C33_RecordedOnlyWhenRewritten ==
    [][ \A c \in Recorded(todoFile') \ Recorded(todoFile) :
           \/ /\ exec'.kind = "step"
              /\ exec'.step.change = c
              /\ exec'.outcome \in { "noop", "rewritten" }
           \/ /\ exec'.kind = "start"
              /\ ~exec'.restart_in_progress
              /\ \/ exec'.in_progress_commit # {}
                 \/ exec'.rebase_in_progress
                 \/ exec'.head = Rewritten(patchset[c]) ]_vars

(* ------------------------ claims on progress --------------------------- *)

\* A restack that is carried on: invoked, stepped, completed, with the user
\* resolving conflicts by hand; nobody aborts or damages the todo.
NextProgress ==
    \/ RestackStart
    \/ RestackStep
    \/ RestackComplete
    \/ UserRebaseContinue

\* A running restack whose queue is empty goes on to its completion.
SpecProgress == Init /\ [][NextProgress]_vars /\ WF_vars(RestackComplete)

\* The number of planned changes without an entry in refs of a todo.
Unrecorded(todo) == Cardinality(QueuedChanges(plan.steps) \ DOMAIN todo.refs)

\* The planned changes still to be recorded by the restack on disk.
Left == IF todoFile.state = "valid" THEN Unrecorded(todoFile.todo) ELSE 0

\* Every planned change has its entry in refs of the todo on disk.
AllRecorded == todoFile.state = "valid" /\ Left = 0

\* Every failed step is eventually continued successfully: a todo on disk
\* does not stay short of an entry for ever.
FailuresContinued == (todoFile.state = "valid") ~> AllRecorded

\* Completed: the steps are exhausted and the todo is deleted.
Completed == done.completed /\ todoFile = Absent

MaxPublished == 4

\* restack, line 293: the todo file is removed.
CompleteRemoveTodo ==
    /\ pc = "restack"
    /\ mem.todo.steps = << >>
    /\ todoFile' = Absent
    /\ pc' = "todo_removed"
    /\ exec' = NoExec
    /\ done' = NoDone
    /\ UNCHANGED << graph, call, gerritVars, plan, pushFile, mem, git, patchset,
                    published, result, plans >>

\* restack, lines 294-312: the push todo is derived and, unless it is empty,
\* written.
CompleteWritePush ==
    /\ pc = "todo_removed"
    /\ LET push == PushTodoFrom(mem.todo)
           written == ~IsEmpty(push)
       IN  /\ pushFile' = IF written THEN Written(push) ELSE pushFile
           /\ published' = IF written
                           THEN [ pending |-> push.refs, log |-> << >> ]
                           ELSE published
    /\ pc' = "push_written"
    /\ UNCHANGED << graph, call, gerritVars, plan, todoFile, mem, git, patchset,
                    result, exec, done, plans >>

\* restack, lines 314-327: the commit to return to is checked out.
CompleteCheckout ==
    /\ pc = "push_written"
    /\ \E checkoutOk \in BOOLEAN :
          LET push == PushTodoFrom(mem.todo)
              restore == RestoreCommit(mem.todo.before, push)
          IN  /\ git' = IF checkoutOk THEN GitAt(restore) ELSE git
              /\ result' = IF checkoutOk THEN Ok(result.cmd)
                           ELSE Error(result.cmd, "CheckoutFailed")
              /\ done' = [ completed |-> TRUE, refs |-> mem.todo.refs,
                           before |-> mem.todo.before, wrote_push |-> ~IsEmpty(push),
                           checked_out |-> checkoutOk ]
    /\ pc' = "idle"
    /\ mem' = NoMem
    /\ UNCHANGED << graph, call, gerritVars, plan, todoFile, pushFile, patchset,
                    published, exec, plans >>

\* restack_push, lines 95-101: the children not seen yet are queued, and the
\* loop goes on with `todo` or ends.
PushAdvance(todo) ==
    LET change == Head(mem.queue)
        nb == NeededBy(todo.graph, change)
        next == EnqueueUnseen([ queue |-> Tail(mem.queue), seen |-> mem.seen ],
                              SortedSeq(nb.set))
    IN  IF next.queue = << >>
        THEN /\ pc' = "idle"
             /\ mem' = NoMem
             /\ result' = Ok("restack push")
        ELSE /\ pc' = "push"
             /\ mem' = [ kind |-> "push",
                         todo |-> [ todo EXCEPT !.graph = nb.graph ],
                         queue |-> next.queue, seen |-> next.seen ]
             /\ UNCHANGED result

\* restack_push, lines 83-91: the entry of the change is taken out of refs in
\* memory and its commit is published.
PushPublish ==
    /\ pc = "push"
    /\ mem.queue # << >>
    /\ Head(mem.queue) \in DOMAIN mem.todo.refs
    /\ Len(published.log) < MaxPublished
    /\ \E outcome \in PushOutcomes :
          LET change == Head(mem.queue)
          IN  IF outcome # "pushed"
              THEN /\ pc' = "idle"
                   /\ mem' = NoMem
                   /\ result' = Error("restack push", outcome)
                   /\ UNCHANGED << patchset, published >>
              ELSE /\ published' = [ published EXCEPT !.log = Append(@,
                          [ change |-> change,
                            commit |-> mem.todo.refs[change].new,
                            remote |-> Remote,
                            branch |-> TargetBranch(change) ]) ]
                   /\ patchset' = [ patchset EXCEPT
                                      ![change] = mem.todo.refs[change].new ]
                   /\ mem' = [ mem EXCEPT !.todo.refs = RefsRemove(@, change) ]
                   /\ pc' = "published"
                   /\ UNCHANGED result
    /\ UNCHANGED << graph, call, gerritVars, plan, todoFile, pushFile, git, exec,
                    done, plans >>

\* restack_push, lines 92-101: the todo is written without the entry, and
\* the children are queued.
PushWrite ==
    /\ pc = "published"
    /\ pushFile' = Written(mem.todo)
    /\ PushAdvance(mem.todo)
    /\ UNCHANGED << graph, call, gerritVars, plan, todoFile, git, patchset,
                    published, exec, done, plans >>

\* restack_push, lines 82-101, for a change with nothing to publish.
PushSkip ==
    /\ pc = "push"
    /\ mem.queue # << >>
    /\ Head(mem.queue) \notin DOMAIN mem.todo.refs
    /\ PushAdvance(mem.todo)
    /\ UNCHANGED << graph, call, gerritVars, plan, todoFile, pushFile, git,
                    patchset, published, exec, done, plans >>

\* The process is terminated between two of its operations; the ghost exec
\* keeps where it was and what it held in memory.
Kill ==
    /\ pc # "idle"
    /\ pc' = "idle"
    /\ mem' = NoMem
    /\ result' = Error(result.cmd, "Killed")
    /\ exec' = [ kind |-> "kill", at |-> pc, todo |-> mem.todo ]
    /\ done' = NoDone
    /\ UNCHANGED << graph, call, gerritVars, plan, todoFile, pushFile, git,
                    patchset, published, plans >>

\* Restack and restack push, operation by operation, with the process
\* terminated at any point between two operations.
NextKill ==
    \/ RestackStart
    \/ CleanStep
    \/ CompleteRemoveTodo
    \/ CompleteWritePush
    \/ CompleteCheckout
    \/ PushStart
    \/ PushPublish
    \/ PushWrite
    \/ PushSkip
    \/ Kill

SpecKill == Init /\ [][NextKill]_vars

\* The entries of refs that changed are in the restack todo or in the push
\* todo on disk.
OnDisk(refs) ==
    \A c \in DOMAIN refs :
        HasChange(refs[c]) =>
            \/ /\ todoFile.state = "valid"
               /\ c \in DOMAIN todoFile.todo.refs
               /\ todoFile.todo.refs[c] = refs[c]
            \/ /\ pushFile.state = "valid"
               /\ c \in DOMAIN pushFile.todo.refs
               /\ pushFile.todo.refs[c] = refs[c]

\* The positions of restack between the removal of the todo and its return.
Completing == { "todo_removed", "push_written" }

\* C35: from the success of the last step until restack returns, the
\* RefUpdates that changed are on disk, in the restack todo or in the push
\* todo, at every instant, and so they are after the process was terminated
\* at any of these instants.
C35_RewritesSurviveTermination ==
    /\ ((pc = "restack" /\ mem.todo.steps = << >>) \/ pc \in Completing) =>
           OnDisk(mem.todo.refs)
    /\ (exec.kind = "kill" /\ exec.at \in Completing) => OnDisk(exec.todo.refs)

\* C38 as stated: no commit is published twice by restack_push, wherever the
\* process was terminated before restack_push was invoked again.
C38_NothingPublishedTwice ==
    \A i, j \in 1 .. Len(published.log) :
        i # j => published.log[i].commit # published.log[j].commit

\* The changes pending in the push todo on disk.
PendingOnDisk(file) == IF file.state = "valid" THEN DOMAIN file.todo.refs ELSE {}

\* C38, amended: restack_push publishes only commits that are pending in the
\* push todo on disk; the write that follows a publish takes the change out
\* of the todo on disk, and a push never puts a change back; so a change is
\* published again only when the process was terminated between its publish
\* and the write that follows.
C38_FlushedNotPublishedAgain ==
    [][ /\ (Len(published.log') > Len(published.log)) =>
              LET e == published.log'[Len(published.log')]
              IN  /\ e.change \in PendingOnDisk(pushFile)
                  /\ pushFile.todo.refs[e.change].new = e.commit
        /\ (pc = "published" /\ pc' \in { "push", "idle" } /\ result'.status # "error") =>
              LET e == published.log[Len(published.log)]
              IN  /\ e.change \notin PendingOnDisk(pushFile')
                  /\ PendingOnDisk(pushFile') = PendingOnDisk(pushFile) \ { e.change }
        /\ (pc \in { "push", "published" } \/ pc' \in { "push", "published" }) =>
              PendingOnDisk(pushFile') \subseteq PendingOnDisk(pushFile) ]_vars

\* A push was terminated between the publish of a change and the write of
\* the todo, restack push was invoked again, and the change was published a
\* second time and then taken out of the todo on disk.
C38_Witness ==
    /\ Len(published.log) >= 2
    /\ \E i, j \in 1 .. Len(published.log) :
          /\ i # j
          /\ published.log[i] = published.log[j]
          /\ published.log[i].change \notin PendingOnDisk(pushFile)
    /\ pushFile.state = "valid"

(* --------------------- one restack after another ----------------------- *)

\* `git-gr restack`, where one more todo may be planned after the first.
RestackAgain == RestackStartUpTo(MaxPlans + 1)

\* Restacks that run through, one after another, and pushes.
NextAgain ==
    \/ RestackAgain
    \/ CleanStep
    \/ RestackComplete
    \/ PushStart
    \/ PushVisit

SpecAgain == Init /\ [][NextAgain]_vars

\* C36: after a restack completes, the push todo on disk, if there is one,
\* holds only RefUpdates that this restack produced; when the restack changed
\* nothing, no push todo of an earlier restack is left for restack_push.
C36_PushTodoIsOfLastRestack ==
    (done.completed /\ pushFile.state = "valid") =>
        /\ \A c \in DOMAIN pushFile.todo.refs :
              /\ c \in DOMAIN done.refs
              /\ pushFile.todo.refs[c] = done.refs[c]
        /\ ~done.wrote_push => DOMAIN pushFile.todo.refs = {}

(* ---------------------- interleaved invocations ------------------------ *)

\* The number of invocations of `git-gr restack` that run at the same time
\* on one working copy.
NumInvocations == 2

Invocations == 1 .. NumInvocations

\* Two invocations start with no todo on disk; pc and mem hold the position
\* and the memory of each of them.
InitRace ==
    /\ graph \in GraphInputs
    /\ call = NoCall
    /\ plan = NoPlan
    /\ todoFile = Absent
    /\ pushFile = Absent
    /\ pc = [ p \in Invocations |-> "get_todo" ]
    /\ mem = [ p \in Invocations |-> NoMem ]
    /\ git = GitAt(LocalCommit(graph.root))
    /\ patchset = [ c \in Changes |-> FirstPatchset(c) ]
    /\ published = NoPublished
    /\ result = NoResult
    /\ exec = NoExec
    /\ done = NoDone
    /\ plans = 0
    /\ GerritIdle

\* get_or_create_todo calling get_todo (lines 366-367, 377-388): the todo on
\* disk is resumed when there is one.
RaceGetTodo(p) ==
    /\ pc[p] = "get_todo"
    /\ IF todoFile.state = "valid"
       THEN /\ pc' = [ pc EXCEPT ![p] = "resumed" ]
            /\ mem' = [ mem EXCEPT ![p] = [ kind |-> "restack", todo |-> todoFile.todo ] ]
       ELSE /\ pc' = [ pc EXCEPT ![p] = "create_todo" ]
            /\ mem' = mem
    /\ UNCHANGED << graph, call, gerritVars, plan, todoFile, pushFile, git, patchset,
                    published, result, exec, done, plans >>

\* create_todo, lines 390-397: the check that no todo exists.
RaceCheckExists(p) ==
    /\ pc[p] = "create_todo"
    /\ pc' = [ pc EXCEPT ![p] = IF todoFile.state # "absent"
                                THEN "TodoAlreadyExists" ELSE "planning" ]
    /\ UNCHANGED << graph, call, gerritVars, plan, todoFile, pushFile, mem, git,
                    patchset, published, result, exec, done, plans >>

\* create_todo after its check: the remote is queried and the steps planned.
RacePlan(p) ==
    /\ pc[p] = "planning"
    /\ \E status \in RemoteStatuses, remoteOk \in BOOLEAN, headKnown \in BOOLEAN :
          LET made == CreateTodo(Absent, git.head, graph, status, remoteOk, headKnown)
          IN  IF made.ok
              THEN /\ pc' = [ pc EXCEPT ![p] = "write" ]
                   /\ mem' = [ mem EXCEPT ![p] =
                                 [ kind |-> "restack", todo |-> made.todo,
                                   status |-> status ] ]
              ELSE /\ pc' = [ pc EXCEPT ![p] = made.error ]
                   /\ mem' = mem
    /\ UNCHANGED << graph, call, gerritVars, plan, todoFile, pushFile, git, patchset,
                    published, result, exec, done, plans >>

\* get_or_create_todo, line 371: todo.write, which creates or truncates the
\* file.  The ghost exec keeps what was on disk before.
RaceWrite(p) ==
    /\ pc[p] = "write"
    /\ todoFile' = Written(mem[p].todo)
    /\ plan' = Planned(mem[p].status, mem[p].todo)
    /\ plans' = plans + 1
    /\ exec' = [ kind |-> "write", by |-> p, over |-> todoFile ]
    /\ pc' = [ pc EXCEPT ![p] = "planned" ]
    /\ UNCHANGED << graph, call, gerritVars, pushFile, mem, git, patchset, published,
                    result, done >>

NextRace ==
    \E p \in Invocations :
        \/ RaceGetTodo(p)
        \/ RaceCheckExists(p)
        \/ RacePlan(p)
        \/ RaceWrite(p)

SpecRace == InitRace /\ [][NextRace]_vars

\* C31: with two invocations interleaved on one working copy, at most one of
\* them plans and writes a restack todo, the other fails or resumes the todo
\* on disk, and a todo on disk is never overwritten by a planner.
C31_OnePlannerWrites ==
    /\ plans <= 1
    /\ Cardinality({ p \in Invocations : pc[p] = "planned" }) <= 1
    /\ exec.kind = "write" => exec.over = Absent

====
